---- MODULE Spec2Model ----
(***************************************************************************)
(* The "dangling delegate" checker of src/analyzer: the syntactic          *)
(* fact-finder (DanglingDelegateFactFinder.cpp), the pattern matchers      *)
(* (DanglingDelegateCommon.cpp) and the path-sensitive checker             *)
(* (DanglingDelegateChecker.cpp), driven by the callbacks of the host      *)
(* analyzer.                                                               *)
(*                                                                         *)
(* Strings whose characters the code inspects (selectors, method names,    *)
(* property names) are sequences of one-character strings.  Declarations   *)
(* the code only compares by pointer (ivars, interfaces) are plain strings.*)
(***************************************************************************)
EXTENDS Integers, Sequences, FiniteSets, TLC

VARIABLES
  tu,            \* the ObjCImplDecls of the translation unit (host input)
  arc,           \* LangOpts.ObjCAutoRefCount
  phase,         \* host schedule: "scan", "paths", "end"
  implFacts,     \* DanglingDelegateChecker::_implFacts
  scanned,       \* indices of tu already handed to checkASTDecl
  crashed,       \* an exception escaped a callback
  path,          \* the path being explored: top frame, stack, program state
  steps,         \* callbacks delivered on the current path
  lastEvent,     \* the callback that ran last, with its inputs
  lastReports,   \* the reports that callback filed, in order
  verifyCalls,   \* the calls to verifyAndReportDangerousProperties it made
  pathReports,   \* every report filed on the current path, in order
  hist,          \* per (ivar, property): what the path's events did to it
  dedup,         \* the DeduplicationService clients and their service directory
  writer         \* a GenWriter built with DEBUG, and the events it was sent

vars == <<tu, arc, phase, implFacts, scanned, crashed, path, steps,
          lastEvent, lastReports, verifyCalls, pathReports, hist, dedup, writer>>

\* the state of the libtooling components, which the analyzer never touches
libtooling == <<dedup, writer>>

NULL == "NULL"                                  \* a null declaration pointer
NullExpr == [kind |-> "NULL"]                   \* a null Expr pointer
NoProperty == [interface |-> NULL, name |-> <<>>, setterKind |-> NULL, ivar |-> NULL]
NoMethodDecl == [isPropertyAccessor |-> FALSE, param_size |-> 0, resolved |-> FALSE]

\* ------------------------------------------------------------ bounds
MaxMethods == 2
MaxSteps == 3

\* ------------------------------------------------------------ strings
Uppers == <<"A","B","C","D","E","F","G","H","I","J","K","L","M",
            "N","O","P","Q","R","S","T","U","V","W","X","Y","Z">>
Lowers == <<"a","b","c","d","e","f","g","h","i","j","k","l","m",
            "n","o","p","q","r","s","t","u","v","w","x","y","z">>

\* the lower-case letter of each upper-case letter
LowerOf ==
  [c \in {Uppers[i] : i \in DOMAIN Uppers} |->
     Lowers[CHOOSE i \in DOMAIN Uppers : Uppers[i] = c]]

tolower(c) == IF c \in DOMAIN LowerOf THEN LowerOf[c] ELSE c

lower(s) == [i \in 1..Len(s) |-> tolower(s[i])]

startswith(s, prefix) ==
  Len(s) >= Len(prefix) /\ SubSeq(s, 1, Len(prefix)) = prefix

startswith_lower(s, prefix) == startswith(lower(s), lower(prefix))

\* selectors and names that occur in the analysed code
s_setDelegate == <<"s","e","t","D","e","l","e","g","a","t","e",":">>
s_setDataSource == <<"s","e","t","D","a","t","a","S","o","u","r","c","e",":">>
s_setOwner == <<"s","e","t","O","w","n","e","r",":">>
s_setBar == <<"s","e","t","B","a","r",":">>
s_setView == <<"s","e","t","V","i","e","w",":">>
s_delegate == <<"d","e","l","e","g","a","t","e">>
s_dataSource == <<"d","a","t","a","S","o","u","r","c","e">>
s_owner == <<"o","w","n","e","r">>
s_bar == <<"b","a","r">>
s_view == <<"v","i","e","w">>
s_release == <<"r","e","l","e","a","s","e">>
s_autorelease == <<"a","u","t","o","r","e","l","e","a","s","e">>
s_addTarget == <<"a","d","d","T","a","r","g","e","t",":","a","c","t","i","o","n",":">>
s_removeTarget == <<"r","e","m","o","v","e","T","a","r","g","e","t",":","a","c","t","i","o","n",":">>
s_addObserver == <<"a","d","d","O","b","s","e","r","v","e","r",":">>
s_removeObserver == <<"r","e","m","o","v","e","O","b","s","e","r","v","e","r",":">>
s_defaultCenter == <<"d","e","f","a","u","l","t","C","e","n","t","e","r">>
s_reload == <<"r","e","l","o","a","d">>
s_init == <<"i","n","i","t">>
s_setupBar == <<"s","e","t","u","p","B","a","r">>
s_dealloc == <<"d","e","a","l","l","o","c">>
s_update == <<"u","p","d","a","t","e">>
s_viewDidLoad == <<"v","i","e","w","D","i","d","L","o","a","d">>
s__initViews == <<"_","i","n","i","t","V","i","e","w","s">>
s_set == <<"s","e","t">>
s_removeTargetPrefix == <<"r","e","m","o","v","e","T","a","r","g","e","t",":">>
s_addTargetPrefix == <<"a","d","d","T","a","r","g","e","t",":">>

\* the prefixes of FactFinder::VisitMethodDecl
pseudoInitPrefixes ==
  << <<"_","i","n","i","t">>,
     <<"s","e","t","u","p">>,
     <<"_","s","e","t","u","p">>,
     <<"l","o","a","d">>,
     <<"_","l","o","a","d">>,
     <<"v","i","e","w","d","i","d","l","o","a","d">>,
     <<"_","v","i","e","w","d","i","d","l","o","a","d">> >>

\* ------------------------------------------------------------ host AST
Ivars == {"_bar", "_view"}
IvarOrder == <<"_bar", "_view">>          \* iteration order of the ivar maps
IvarTypeInterface == [f \in Ivars |-> "Bar"]

\* the properties the interfaces declare
PropertyDecls ==
  { [interface |-> "Bar", name |-> s_delegate,   setterKind |-> "Assign", ivar |-> NULL],
    [interface |-> "Bar", name |-> s_dataSource, setterKind |-> "Assign", ivar |-> NULL],
    [interface |-> "Bar", name |-> s_owner,      setterKind |-> "Retain", ivar |-> NULL],
    [interface |-> "Foo", name |-> s_bar,        setterKind |-> "Retain", ivar |-> "_bar"],
    [interface |-> "Foo", name |-> s_view,       setterKind |-> "Retain", ivar |-> "_view"] }

PropOrder == <<s_bar, s_dataSource, s_delegate, s_owner, s_view>>  \* std::set<std::string> order
AssignProps == {s_delegate, s_dataSource}

FindPropertyDeclaration(intDecl, propName) ==
  IF \E d \in PropertyDecls : d.interface = intDecl /\ d.name = propName
  THEN CHOOSE d \in PropertyDecls : d.interface = intDecl /\ d.name = propName
  ELSE NoProperty

\* expressions
SelfExpr == [kind |-> "self"]
NilExpr == [kind |-> "nil"]
OtherExpr == [kind |-> "other"]
IvarRef(f) == [kind |-> "ObjCIvarRefExpr", decl |-> f]
SelfGetter(p) == [kind |-> "PseudoObjectExpr", base |-> SelfExpr,
                  messagingGetter |-> TRUE, implicitProperty |-> FALSE,
                  property |-> FindPropertyDeclaration("Foo", p)]

\* an ObjCMessageExpr: instance receiver (NullExpr for a class message), selector,
\* arguments, the interface of the receiver and the resolved method declaration
Message(recv, sel, args, intf, accessor) ==
  [kind |-> "ObjCMessageExpr",
   receiverKind |-> IF recv = NullExpr THEN "Class" ELSE "Instance",
   receiver |-> recv, selector |-> sel, args |-> args,
   receiverInterface |-> intf,
   methodDecl |-> [isPropertyAccessor |-> accessor, param_size |-> Len(args),
                   resolved |-> TRUE]]

ClassMessage(cls, sel) == Message(NullExpr, sel, <<>>, cls, FALSE)

\* ------------------------------------------------------------ matchers
isObjCSelfExpr(expr) == expr.kind = "self"

getArgOfObjCMessageExpr(expr, index) ==
  IF Len(expr.args) < index + 1 THEN NullExpr ELSE expr.args[index + 1]

getPropertyNameFromSetterSelector(selectorStr) ==
  IF Len(selectorStr) < 5 \/ ~startswith(selectorStr, s_set)
  THEN <<>>
  ELSE LET propName == SubSeq(selectorStr, 4, Len(selectorStr) - 1)
       IN [propName EXCEPT ![1] = tolower(@)]

matchObjCMessageWithPropertySetter(expr) ==
  IF ~expr.methodDecl.resolved THEN NoProperty
  ELSE IF ~expr.methodDecl.isPropertyAccessor \/ expr.methodDecl.param_size # 1 THEN NoProperty
  ELSE IF expr.receiverInterface = NULL THEN NoProperty
  ELSE LET propName == getPropertyNameFromSetterSelector(expr.selector)
       IN IF propName = <<>> THEN NoProperty
          ELSE FindPropertyDeclaration(expr.receiverInterface, propName)

matchObjCMessageWithPropertyGetter(expr) ==
  IF ~expr.methodDecl.resolved THEN NoProperty
  ELSE IF ~expr.methodDecl.isPropertyAccessor \/ expr.methodDecl.param_size # 0 THEN NoProperty
  ELSE IF expr.receiverInterface = NULL THEN NoProperty
  ELSE FindPropertyDeclaration(expr.receiverInterface, expr.selector)

matchIvarLValueExpression(expr) ==
  IF expr.kind = "NULL" THEN NULL
  ELSE IF expr.kind = "ObjCIvarRefExpr" THEN expr.decl
  ELSE IF expr.kind # "PseudoObjectExpr" THEN NULL
  ELSE IF ~expr.messagingGetter \/ expr.implicitProperty THEN NULL
  ELSE IF ~isObjCSelfExpr(expr.base) THEN NULL
  ELSE IF expr.property = NoProperty THEN NULL
  ELSE expr.property.ivar

matchObservableSingletonObject(expr) ==
  IF expr.kind # "ObjCMessageExpr" THEN <<>>
  ELSE IF expr.receiverKind # "Class" \/ expr.receiverInterface = NULL THEN <<>>
  ELSE IF expr.receiverInterface = "NSNotificationCenter" /\ expr.selector = s_defaultCenter
       THEN <<expr.receiverInterface, expr.selector>>
       ELSE <<>>

\* ------------------------------------------------------------ maps
EmptyMap == [x \in {} |-> NULL]
MapSet(m, k, v) == [x \in DOMAIN m \cup {k} |-> IF x = k THEN v ELSE m[x]]

\* ------------------------------------------------------------ fact-finder
IvarFacts0 ==
  [mayStoreSelfInUnsafeProperty |-> {}, mayTargetSelf |-> FALSE, mayObserveSelf |-> FALSE]

ObjCImplFacts0 ==
  [ivarFactsMap |-> EmptyMap, sharedObserverFactsMap |-> EmptyMap,
   pseudoInitMethods |-> {}, hasDealloc |-> FALSE]

\* std::map::operator[]: the entry, default-constructed when absent
IvarFactsAt(facts, ivarDecl) ==
  IF ivarDecl \in DOMAIN facts.ivarFactsMap
  THEN facts.ivarFactsMap[ivarDecl] ELSE IvarFacts0

\* mutant: a property already recorded is removed instead of kept
ivarMayStoreSelfInUnsafeProperty_toggle(facts, ivarDecl, propName) ==
  [facts EXCEPT !.ivarFactsMap =
     MapSet(@, ivarDecl,
            [IvarFactsAt(facts, ivarDecl) EXCEPT
               !.mayStoreSelfInUnsafeProperty =
                  IF propName \in @ THEN @ \ {propName} ELSE @ \cup {propName}])]

ivarMayStoreSelfInUnsafeProperty(facts, ivarDecl, propName) ==
  [facts EXCEPT !.ivarFactsMap =
     MapSet(@, ivarDecl,
            [IvarFactsAt(facts, ivarDecl) EXCEPT
               !.mayStoreSelfInUnsafeProperty = @ \cup {propName}])]

ivarMayTargetSelf(facts, ivarDecl) ==
  [facts EXCEPT !.ivarFactsMap =
     MapSet(@, ivarDecl, [IvarFactsAt(facts, ivarDecl) EXCEPT !.mayTargetSelf = TRUE])]

ivarMayObserveSelf(facts, ivarDecl) ==
  [facts EXCEPT !.ivarFactsMap =
     MapSet(@, ivarDecl, [IvarFactsAt(facts, ivarDecl) EXCEPT !.mayObserveSelf = TRUE])]

sharedObjectMayObserveSelfInMethod(facts, objectName, methodName) ==
  [facts EXCEPT !.sharedObserverFactsMap =
     MapSet(@, objectName,
            (IF objectName \in DOMAIN @ THEN @[objectName] ELSE {}) \cup {methodName})]

HasPseudoInitPrefix(methName) ==
  \E i \in DOMAIN pseudoInitPrefixes : startswith_lower(methName, pseudoInitPrefixes[i])

\* mutant: the prefixes are compared with the case of the method name
VisitMethodDecl_caseSensitive(facts, methDecl) ==
  IF methDecl.family = "OMF_init"
  THEN [facts EXCEPT !.pseudoInitMethods = @ \cup {methDecl.name}]
  ELSE LET f1 == IF methDecl.name = s_dealloc
                 THEN [facts EXCEPT !.hasDealloc = TRUE] ELSE facts
       IN IF \E i \in DOMAIN pseudoInitPrefixes : startswith(methDecl.name, pseudoInitPrefixes[i])
          THEN [f1 EXCEPT !.pseudoInitMethods = @ \cup {methDecl.name}]
          ELSE f1

VisitMethodDecl(facts, methDecl) ==
  IF methDecl.family = "OMF_init"
  THEN [facts EXCEPT !.pseudoInitMethods = @ \cup {methDecl.name}]
  ELSE LET f1 == IF methDecl.name = s_dealloc
                 THEN [facts EXCEPT !.hasDealloc = TRUE] ELSE facts
       IN IF HasPseudoInitPrefix(methDecl.name)
          THEN [f1 EXCEPT !.pseudoInitMethods = @ \cup {methDecl.name}]
          ELSE f1

\* mutant: the entry of the receiving ivar is looked up with operator[] before
\* the selector is examined
VisitObjCMessageExpr_lookupFirst(facts, methDecl, expr) ==
  IF expr.receiver = NullExpr THEN facts
  ELSE IF ~isObjCSelfExpr(getArgOfObjCMessageExpr(expr, 0)) THEN facts
  ELSE
    LET ivarDecl == matchIvarLValueExpression(expr.receiver) IN
    IF ivarDecl = NULL THEN facts
    ELSE [facts EXCEPT !.ivarFactsMap = MapSet(@, ivarDecl, IvarFactsAt(facts, ivarDecl))]

VisitObjCMessageExpr(facts, methDecl, expr) ==
  IF expr.receiver = NullExpr THEN facts
  ELSE IF ~isObjCSelfExpr(getArgOfObjCMessageExpr(expr, 0)) THEN facts
  ELSE
    LET ivarDecl == matchIvarLValueExpression(expr.receiver)
        propDecl == matchObjCMessageWithPropertySetter(expr)
        receiverObjectName == matchObservableSingletonObject(expr.receiver)
    IN IF ivarDecl # NULL
       THEN IF propDecl # NoProperty /\ propDecl.setterKind = "Assign"
            THEN ivarMayStoreSelfInUnsafeProperty(facts, ivarDecl, propDecl.name)
            ELSE IF startswith(expr.selector, s_addTargetPrefix)
            THEN ivarMayTargetSelf(facts, ivarDecl)
            ELSE IF startswith(expr.selector, s_addObserver)
            THEN ivarMayObserveSelf(facts, ivarDecl)
            ELSE facts
       ELSE IF receiverObjectName # <<>> /\ startswith(expr.selector, s_addObserver)
            THEN sharedObjectMayObserveSelfInMethod(facts, receiverObjectName, methDecl.name)
            ELSE facts

\* FactFinder::Visit(body): every ObjCMessageExpr of the body, in traversal order
RECURSIVE Visit(_, _, _)
Visit(facts, methDecl, body) ==
  IF body = <<>> THEN facts
  ELSE Visit(VisitObjCMessageExpr(facts, methDecl, Head(body)), methDecl, Tail(body))

\* mutant: the body of a pseudo-init method is not visited
VisitMethod_skipPseudoInit(facts, methDecl) ==
  LET f1 == VisitMethodDecl(facts, methDecl)
  IN IF methDecl.hasBody /\ methDecl.name \notin f1.pseudoInitMethods
     THEN Visit(f1, methDecl, methDecl.body) ELSE f1

\* what checkASTDecl does for one method of the implementation
VisitMethod(facts, methDecl) ==
  LET f1 == VisitMethodDecl(facts, methDecl)
  IN IF methDecl.hasBody THEN Visit(f1, methDecl, methDecl.body) ELSE f1

RECURSIVE VisitMethods(_, _)
VisitMethods(facts, methods) ==
  IF methods = <<>> THEN facts
  ELSE VisitMethods(VisitMethod(facts, Head(methods)), Tail(methods))

\* ------------------------------------------------------------ reports
Report(ivarName, propName, declName) ==
  [ivar |-> ivarName, prop |-> propName, className |-> IvarTypeInterface[ivarName],
   declName |-> declName]

SetToSeq(S) == SelectSeq(PropOrder, LAMBDA p : p \in S)

RECURSIVE ReportEach(_, _, _, _)
ReportEach(props, clearedProperties, ivarName, declName) ==
  IF props = <<>> THEN <<>>
  ELSE (IF Head(props) \notin clearedProperties
        THEN <<Report(ivarName, Head(props), declName)>> ELSE <<>>)
       \o ReportEach(Tail(props), clearedProperties, ivarName, declName)

\* mutant: the cleared properties are reported as well
verifyAndReportDangerousProperties_ignoreCleared(dangerousProperties, clearedProperties, ivarName, declName) ==
  ReportEach(SetToSeq(dangerousProperties), {}, ivarName, declName)

verifyAndReportDangerousProperties(dangerousProperties, clearedProperties, ivarName, declName) ==
  ReportEach(SetToSeq(dangerousProperties), clearedProperties, ivarName, declName)

VerifyCall(dangerous, cleared, ivarName) ==
  [dangerous |-> dangerous, cleared |-> cleared, ivar |-> ivarName]


\* ------------------------------------------------------------ analysed code
MethodDecl(name, family, body) ==
  [name |-> name, family |-> family, hasBody |-> TRUE, body |-> body]

\* an ObjCImplDecl: its NamedDecl name, its class interface, its methods, and
\* whether the host hands it to the ASTDecl callback (it does not when the
\* analysis is restricted to one function)
ImplDecl(name, classInterface, methods) ==
  [name |-> name, classInterface |-> classInterface, methods |-> methods,
   syntaxMode |-> TRUE]

NotScanned(implDecl) == [implDecl EXCEPT !.syntaxMode = FALSE]

\* _bar.delegate = self;   self.bar.delegate = self;   _bar.delegate = nil; ...
StoreSelf(recv, setter) == Message(recv, setter, <<SelfExpr>>, "Bar", TRUE)
StoreNil(recv, setter) == Message(recv, setter, <<NilExpr>>, "Bar", TRUE)
StoreOther(recv, setter) == Message(recv, setter, <<OtherExpr>>, "Bar", TRUE)
AddTargetSelf(recv) == Message(recv, s_addTarget, <<SelfExpr, OtherExpr>>, "Bar", FALSE)
AddObserverSelf(recv, intf) == Message(recv, s_addObserver, <<SelfExpr>>, intf, FALSE)

m_init_store == MethodDecl(s_init, "OMF_init", <<StoreSelf(SelfGetter(s_bar), s_setDelegate)>>)
m_init_plain == MethodDecl(s_init, "OMF_init", <<>>)
m_setupBar_store == MethodDecl(s_setupBar, "OMF_None", <<StoreSelf(IvarRef("_bar"), s_setDelegate)>>)
m_setupBar_plain == MethodDecl(s_setupBar, "OMF_None", <<StoreNil(IvarRef("_bar"), s_setDelegate)>>)
m_dealloc_clear == MethodDecl(s_dealloc, "OMF_None",
                     <<StoreSelf(IvarRef("_bar"), s_setDelegate), StoreNil(IvarRef("_bar"), s_setDelegate)>>)
m_dealloc_plain == MethodDecl(s_dealloc, "OMF_None", <<>>)
m_update_stores == MethodDecl(s_update, "OMF_None",
                     <<StoreSelf(IvarRef("_bar"), s_setDataSource),
                       StoreSelf(SelfGetter(s_view), s_setDelegate),
                       AddTargetSelf(IvarRef("_view"))>>)
m_update_target == MethodDecl(s_update, "OMF_None", <<AddTargetSelf(IvarRef("_view"))>>)
m_reload_owning == MethodDecl(s_reload, "OMF_None",
                     <<StoreSelf(IvarRef("_bar"), s_setOwner),
                       Message(IvarRef("_view"), s_reload, <<SelfExpr>>, "Bar", FALSE),
                       AddObserverSelf(ClassMessage("NSNotificationCenter", s_defaultCenter),
                                       "NSNotificationCenter"),
                       Message(NullExpr, s_defaultCenter, <<>>, "NSNotificationCenter", FALSE)>>)
m_reload_observer == MethodDecl(s_reload, "OMF_None", <<AddObserverSelf(IvarRef("_bar"), "Bar")>>)
\* - (void)viewDidLoad and - (void)_initViews: neither is of the init family
m_viewDidLoad == MethodDecl(s_viewDidLoad, "OMF_None", <<>>)
m__initViews == MethodDecl(s__initViews, "OMF_None", <<>>)

MethodCatalogue ==
  { m_init_store, m_init_plain, m_setupBar_store, m_setupBar_plain, m_dealloc_clear,
    m_dealloc_plain, m_update_stores, m_update_target, m_reload_owning, m_reload_observer,
    m_viewDidLoad, m__initViews }

\* the method lists of an implementation: no two methods share a name
MethodSeqs ==
  { ms \in UNION { [1..n -> MethodCatalogue] : n \in 0..MaxMethods } :
      \A i, j \in DOMAIN ms : i # j => ms[i].name # ms[j].name }

\* a second ObjCImplDecl of the translation unit: another class, or a category
\* implementation of Foo (named after the class or after the category)
SecondDecls ==
  { ImplDecl("Baz", "Baz", <<m_update_stores>>),
    ImplDecl("Foo", "Foo", <<m_update_target>>),
    ImplDecl("Additions", "Foo", <<m_setupBar_store>>) }

FactsTUs ==
  { <<ImplDecl("Foo", "Foo", ms)>> : ms \in MethodSeqs }
  \cup { <<ImplDecl("Foo", "Foo", ms), d>> : ms \in MethodSeqs, d \in SecondDecls }

\* ------------------------------------------------------------ initial state
\* the declaration of a stack frame: an ObjCMethodDecl or another kind of Decl
MethodFrame(implDecl, methDecl) ==
  [isMethod |-> TRUE, name |-> methDecl.name, classInterface |-> implDecl.classInterface]
FunctionFrame == [isMethod |-> FALSE, name |-> <<>>, classInterface |-> NULL]

\* the program state of a path that has not begun
EmptyState ==
  [IvarMap |-> EmptyMap, InitStateWasSet |-> FALSE, CurrentObjCInterfaceDecl |-> NULL]

\* `decl` is the declaration of the top frame, `inlined` the declarations of the
\* frames of the calls the engine is inlining, innermost last
NoPath == [active |-> FALSE, decl |-> FunctionFrame, inlined |-> <<>>, state |-> EmptyState]

\* per (ivar, assign property): the last setter call delivered and the last one
\* the path tracker examined ("none", "self", "nonself"), whether an examined setter call ever cleared the
\* property, whether another event (assumption, reset) changed the cleared set
\* of the ivar since the last setter call, and whether a favourable assumption
\* still stands
NoHist ==
  [f \in Ivars |-> [p \in AssignProps |->
     [lastCall |-> "none", lastSetter |-> "none", cleared |-> FALSE, otherSince |-> FALSE,
      assumed |-> FALSE]]]

NoEvent == [kind |-> "none"]

\* no DeduplicationService constructed, no GenWriter constructed
NoClients == [debug |-> FALSE, files |-> EmptyMap, clients |-> <<>>, calls |-> 0, log |-> <<>>]
NoWriter == [alive |-> FALSE, destroyed |-> FALSE]

AnalyzerInit(TUs) ==
  /\ tu \in TUs
  /\ arc \in BOOLEAN
  /\ phase = "scan"
  /\ implFacts = EmptyMap
  /\ scanned = {}
  /\ crashed = FALSE
  /\ path = NoPath
  /\ steps = 0
  /\ lastEvent = NoEvent
  /\ lastReports = <<>>
  /\ verifyCalls = <<>>
  /\ pathReports = <<>>
  /\ hist = NoHist

InitWith(TUs) ==
  /\ AnalyzerInit(TUs)
  /\ dedup = NoClients
  /\ writer = NoWriter

\* ------------------------------------------------------------ class-wide scan
\* checkASTDecl, the loop over the methods of the implementation
ScanImpl(facts, implDecl) == VisitMethods(facts, implDecl.methods)

\* the ivars of a facts map, in iteration order
FactIvars(facts) == SelectSeq(IvarOrder, LAMBDA f : f \in DOMAIN facts.ivarFactsMap)

RECURSIVE ClassLevelCalls(_, _)
ClassLevelCalls(facts, ivars) ==
  IF ivars = <<>> THEN <<>>
  ELSE <<VerifyCall(facts.ivarFactsMap[Head(ivars)].mayStoreSelfInUnsafeProperty, {}, Head(ivars))>>
       \o ClassLevelCalls(facts, Tail(ivars))

RECURSIVE RunCalls(_, _)
RunCalls(calls, declName) ==
  IF calls = <<>> THEN <<>>
  ELSE verifyAndReportDangerousProperties(Head(calls).dangerous, Head(calls).cleared,
                                          Head(calls).ivar, declName)
       \o RunCalls(Tail(calls), declName)

\* mutant: the test on the teardown method is inverted
ClassLevelVerification_inverted(facts, autoRefCount) ==
  IF facts.hasDealloc /\ autoRefCount THEN ClassLevelCalls(facts, FactIvars(facts)) ELSE <<>>

\* mutant: the language mode is not consulted
ClassLevelVerification_anyMode(facts, autoRefCount) ==
  IF ~facts.hasDealloc THEN ClassLevelCalls(facts, FactIvars(facts)) ELSE <<>>

\* checkASTDecl, the verification after the scan
ClassLevelVerification(facts, autoRefCount) ==
  IF ~facts.hasDealloc /\ autoRefCount THEN ClassLevelCalls(facts, FactIvars(facts)) ELSE <<>>

checkASTDecl(i) ==
  /\ phase = "scan" /\ ~crashed
  /\ i \in DOMAIN tu /\ tu[i].syntaxMode
  /\ LET implDecl == tu[i]
         name == implDecl.name
         facts == ScanImpl(IF name \in DOMAIN implFacts THEN implFacts[name] ELSE ObjCImplFacts0,
                           implDecl)
         calls == ClassLevelVerification(facts, arc)
     IN /\ implFacts' = MapSet(implFacts, name, facts)
        /\ verifyCalls' = calls
        /\ lastReports' = RunCalls(calls, "ARC-generated dealloc")
        /\ lastEvent' = [kind |-> "checkASTDecl", decl |-> i,
                         first |-> name \notin DOMAIN implFacts]
  /\ scanned' = scanned \cup {i}
  /\ UNCHANGED <<tu, arc, phase, crashed, path, steps, pathReports, hist, libtooling>>

\* the declarations the host hands to checkASTDecl
ToScan == {i \in DOMAIN tu : tu[i].syntaxMode}

checkEndOfTranslationUnit ==
  /\ ~crashed
  /\ \/ phase = "scan" /\ scanned = ToScan
     \/ phase = "paths" /\ ~path.active
  /\ implFacts' = EmptyMap
  /\ phase' = "end"
  /\ lastEvent' = [kind |-> "checkEndOfTranslationUnit"]
  /\ lastReports' = <<>>
  /\ verifyCalls' = <<>>
  /\ UNCHANGED <<tu, arc, scanned, crashed, path, steps, pathReports, hist, libtooling>>

\* ------------------------------------------------------------ fact-finder runs
InitFacts == InitWith(FactsTUs)

NextFacts ==
  \/ \E i \in DOMAIN tu : checkASTDecl(i)
  \/ checkEndOfTranslationUnit

SpecFacts == InitFacts /\ [][NextFacts]_vars


\* ------------------------------------------------------------ per-path state
\* IvarDynamicState(): none of the expected events happened yet
IvarDynamicState0 ==
  [assignPropertyWasCleared |-> {}, targetWasCleared |-> FALSE, observerWasCleared |-> FALSE]

\* IvarDynamicState(const IvarFacts &): all the expected events already happened
IvarDynamicStateOfFacts(ivarFacts) ==
  [assignPropertyWasCleared |-> ivarFacts.mayStoreSelfInUnsafeProperty,
   targetWasCleared |-> ivarFacts.mayTargetSelf,
   observerWasCleared |-> ivarFacts.mayObserveSelf]

\* IvarDynamicState(const IvarDynamicState *): a copy of state->get<IvarMap>(ivar)
IvarDynamicStateCopy(state, ivarDecl) ==
  IF ivarDecl \in DOMAIN state.IvarMap THEN state.IvarMap[ivarDecl] ELSE IvarDynamicState0

SetIvarMap(state, ivarDecl, ids) == [state EXCEPT !.IvarMap = MapSet(@, ivarDecl, ids)]

\* getCurrentTopClassInterface: the class interface of the method of the top frame
getCurrentTopClassInterface(topDecl) ==
  IF ~topDecl.isMethod THEN NULL ELSE topDecl.classInterface

\* mutant: the facts of the class with the most ivar facts, whatever the class
getCurrentFacts_anyClass(cache, topInterface) ==
  IF topInterface = NULL \/ DOMAIN cache = {} THEN [status |-> "null", facts |-> ObjCImplFacts0]
  ELSE [status |-> "found",
        facts |-> cache[CHOOSE c \in DOMAIN cache : \A d \in DOMAIN cache :
                          Cardinality(DOMAIN cache[c].ivarFactsMap)
                            >= Cardinality(DOMAIN cache[d].ivarFactsMap)]]

\* getCurrentFacts: NULL for no interface, else _implFacts.at(name), which throws
\* std::out_of_range when the class has no entry
getCurrentFacts(cache, topInterface) ==
  IF topInterface = NULL THEN [status |-> "null", facts |-> ObjCImplFacts0]
  ELSE IF topInterface \in DOMAIN cache
       THEN [status |-> "found", facts |-> cache[topInterface]]
       ELSE [status |-> "throw", facts |-> ObjCImplFacts0]

\* mutant: the lookup is made with operator[], which creates the missing entry
CacheAfterLookup_subscript(cache, topInterface) ==
  IF topInterface = NULL \/ topInterface \in DOMAIN cache THEN cache
  ELSE MapSet(cache, topInterface, ObjCImplFacts0)

\* _implFacts after getCurrentFacts: std::map::at creates no entry, whether or
\* not the class has one
CacheAfterLookup(cache, topInterface) == cache

Outcome(crash, state, calls) == [crash |-> crash, state |-> state, calls |-> calls]

\* mutant: while a target may be set and was not removed, nothing counts as
\* cleared
verifyIvarDynamicStateAgainstStaticFacts_targetToo(cache, state, topInterface, ivarDecl) ==
  IF ivarDecl = NULL THEN Outcome(FALSE, state, <<>>)
  ELSE LET r == getCurrentFacts(cache, topInterface)
       IN IF r.status = "throw" THEN Outcome(TRUE, state, <<>>)
          ELSE IF r.status = "null" \/ ivarDecl \notin DOMAIN r.facts.ivarFactsMap
          THEN Outcome(FALSE, state, <<>>)
          ELSE Outcome(FALSE, state,
                       <<VerifyCall(r.facts.ivarFactsMap[ivarDecl].mayStoreSelfInUnsafeProperty,
                                    IF r.facts.ivarFactsMap[ivarDecl].mayTargetSelf
                                       /\ ~IvarDynamicStateCopy(state, ivarDecl).targetWasCleared
                                    THEN {}
                                    ELSE IvarDynamicStateCopy(state, ivarDecl).assignPropertyWasCleared,
                                    ivarDecl)>>)

\* verifyIvarDynamicStateAgainstStaticFacts: the calls to
\* verifyAndReportDangerousProperties it makes, and whether the lookup threw
verifyIvarDynamicStateAgainstStaticFacts(cache, state, topInterface, ivarDecl) ==
  IF ivarDecl = NULL THEN Outcome(FALSE, state, <<>>)
  ELSE LET r == getCurrentFacts(cache, topInterface)
       IN IF r.status = "throw" THEN Outcome(TRUE, state, <<>>)
          ELSE IF r.status = "null" \/ ivarDecl \notin DOMAIN r.facts.ivarFactsMap
          THEN Outcome(FALSE, state, <<>>)
          ELSE Outcome(FALSE, state,
                       <<VerifyCall(r.facts.ivarFactsMap[ivarDecl].mayStoreSelfInUnsafeProperty,
                                    IvarDynamicStateCopy(state, ivarDecl).assignPropertyWasCleared,
                                    ivarDecl)>>)

\* mutant: only the first ivar of the facts is assumed cleared
AssumeAllCleared_firstOnly(state, facts, ivars) ==
  IF ivars = <<>> THEN state
  ELSE SetIvarMap(state, Head(ivars), IvarDynamicStateOfFacts(facts.ivarFactsMap[Head(ivars)]))

\* mutant: the initial state of a pseudo-init method is left as it is
AssumeAllCleared_none(state, facts, ivars) == state

\* the loop of resetInitialStateIfNeeded over the ivar facts
RECURSIVE AssumeAllCleared(_, _, _)
AssumeAllCleared(state, facts, ivars) ==
  IF ivars = <<>> THEN state
  ELSE AssumeAllCleared(
         SetIvarMap(state, Head(ivars), IvarDynamicStateOfFacts(facts.ivarFactsMap[Head(ivars)])),
         facts, Tail(ivars))

\* mutant: the InitStateWasSet flag is not consulted
resetInitialStateIfNeeded_everyStatement(cache, state, topInterface, decl) ==
  IF topInterface = NULL
  THEN Outcome(FALSE, [state EXCEPT !.InitStateWasSet = TRUE], <<>>)
  ELSE LET s1 == [state EXCEPT !.CurrentObjCInterfaceDecl = topInterface]
           r == getCurrentFacts(cache, topInterface)
       IN IF ~decl.isMethod
          THEN Outcome(FALSE, [s1 EXCEPT !.InitStateWasSet = TRUE], <<>>)
          ELSE IF r.status = "throw" THEN Outcome(TRUE, state, <<>>)
          ELSE IF r.status = "found" /\ decl.name \in r.facts.pseudoInitMethods
          THEN Outcome(FALSE,
                       [AssumeAllCleared(s1, r.facts, FactIvars(r.facts))
                          EXCEPT !.InitStateWasSet = TRUE], <<>>)
          ELSE Outcome(FALSE, [s1 EXCEPT !.InitStateWasSet = TRUE], <<>>)

\* resetInitialStateIfNeeded: the state it transitions to
resetInitialStateIfNeeded(cache, state, topInterface, decl) ==
  IF state.InitStateWasSet THEN Outcome(FALSE, state, <<>>)
  ELSE IF topInterface = NULL
  THEN Outcome(FALSE, [state EXCEPT !.InitStateWasSet = TRUE], <<>>)
  ELSE LET s1 == [state EXCEPT !.CurrentObjCInterfaceDecl = topInterface]
       IN IF ~decl.isMethod
          THEN Outcome(FALSE, [s1 EXCEPT !.InitStateWasSet = TRUE], <<>>)
          ELSE LET r == getCurrentFacts(cache, topInterface)
               IN IF r.status = "throw" THEN Outcome(TRUE, state, <<>>)
                  ELSE IF r.status = "found" /\ decl.name \in r.facts.pseudoInitMethods
                  THEN Outcome(FALSE,
                               [AssumeAllCleared(s1, r.facts, FactIvars(r.facts))
                                  EXCEPT !.InitStateWasSet = TRUE], <<>>)
                  ELSE Outcome(FALSE, [s1 EXCEPT !.InitStateWasSet = TRUE], <<>>)

\* statements handed to checkPreStmt
OtherStmt == [kind |-> "Stmt"]
Assignment(lhs, objcPointer, knownNil) ==
  [kind |-> "BinaryOperator", isAssignmentOp |-> TRUE, lhs |-> lhs,
   lhsIsObjCInterfacePointer |-> objcPointer, previousValueKnownNil |-> knownNil]

\* mutant: ivar assignments are verified without automatic reference counting too
checkPreStmtOutcome_anyMode(cache, state, topInterface, decl, autoRefCount, stmt) ==
  LET reset == resetInitialStateIfNeeded(cache, state, topInterface, decl)
  IN IF reset.crash THEN reset
     ELSE IF stmt.kind # "BinaryOperator" THEN reset
     ELSE IF ~stmt.isAssignmentOp THEN reset
     ELSE IF ~stmt.lhsIsObjCInterfacePointer THEN reset
     ELSE IF stmt.lhs.kind # "ObjCIvarRefExpr" THEN reset
     ELSE IF stmt.lhs.decl = NULL THEN reset
     ELSE IF stmt.previousValueKnownNil THEN reset
     ELSE LET v == verifyIvarDynamicStateAgainstStaticFacts(cache, state, topInterface,
                                                            stmt.lhs.decl)
          IN Outcome(v.crash, IF v.crash THEN state ELSE reset.state, v.calls)

\* checkPreStmt: the verification reads context.getState(), the state before the
\* transition of resetInitialStateIfNeeded
checkPreStmtOutcome(cache, state, topInterface, decl, autoRefCount, stmt) ==
  LET reset == resetInitialStateIfNeeded(cache, state, topInterface, decl)
  IN IF reset.crash THEN reset
     ELSE IF ~autoRefCount THEN reset
     ELSE IF stmt.kind # "BinaryOperator" THEN reset
     ELSE IF ~stmt.isAssignmentOp THEN reset
     ELSE IF ~stmt.lhsIsObjCInterfacePointer THEN reset
     ELSE IF stmt.lhs.kind # "ObjCIvarRefExpr" THEN reset
     ELSE IF stmt.lhs.decl = NULL THEN reset
     ELSE IF stmt.previousValueKnownNil THEN reset
     ELSE LET v == verifyIvarDynamicStateAgainstStaticFacts(cache, state, topInterface,
                                                            stmt.lhs.decl)
          IN Outcome(v.crash, IF v.crash THEN state ELSE reset.state, v.calls)

\* an ObjCMethodCall: the message expression and what the engine knows about it
MethodCall(expr, wasInlined, receiverNil, argNil, runtimeDefinition) ==
  [expr |-> expr, wasInlined |-> wasInlined, receiverKnownNil |-> receiverNil,
   arg0KnownNil |-> argNil, runtimeDefinition |-> runtimeDefinition]

\* mutant: the state of the backing ivar is reset before it is verified
selfSetterOutcome_resetFirst(cache, state, topInterface, facts, message, propDecl) ==
  LET ivarDecl == propDecl.ivar
      s1 == IF ivarDecl # NULL /\ ivarDecl \in DOMAIN facts.ivarFactsMap
               /\ message.arg0KnownNil
            THEN SetIvarMap(state, ivarDecl,
                            IvarDynamicStateOfFacts(facts.ivarFactsMap[ivarDecl]))
            ELSE state
      v == IF message.runtimeDefinition \in {"none", "implicit"}
           THEN verifyIvarDynamicStateAgainstStaticFacts(cache, s1, topInterface,
                                                         propDecl.ivar)
           ELSE Outcome(FALSE, state, <<>>)
  IN IF v.crash THEN v ELSE Outcome(FALSE, s1, v.calls)

\* mutant: a nil argument does not reset the state of the backing ivar
selfSetterOutcome_noReset(cache, state, topInterface, facts, message, propDecl) ==
  LET v == IF message.runtimeDefinition \in {"none", "implicit"}
           THEN verifyIvarDynamicStateAgainstStaticFacts(cache, state, topInterface,
                                                         propDecl.ivar)
           ELSE Outcome(FALSE, state, <<>>)
  IN IF v.crash THEN v ELSE Outcome(FALSE, state, v.calls)

\* mutant: the setter on self is verified whatever its runtime definition
selfSetterOutcome_anyDefinition(cache, state, topInterface, facts, message, propDecl) ==
  LET v == verifyIvarDynamicStateAgainstStaticFacts(cache, state, topInterface, propDecl.ivar)
      ivarDecl == propDecl.ivar
  IN IF v.crash THEN v
     ELSE IF ivarDecl # NULL /\ ivarDecl \in DOMAIN facts.ivarFactsMap
             /\ message.arg0KnownNil
          THEN Outcome(FALSE,
                       SetIvarMap(state, ivarDecl,
                                  IvarDynamicStateOfFacts(facts.ivarFactsMap[ivarDecl])),
                       v.calls)
          ELSE Outcome(FALSE, state, v.calls)

\* checkPostObjCMessage, the receiver is self and the message a property setter
selfSetterOutcome(cache, state, topInterface, facts, message, propDecl) ==
  LET v == IF message.runtimeDefinition \in {"none", "implicit"}
           THEN verifyIvarDynamicStateAgainstStaticFacts(cache, state, topInterface,
                                                         propDecl.ivar)
           ELSE Outcome(FALSE, state, <<>>)
      ivarDecl == propDecl.ivar
  IN IF v.crash THEN v
     ELSE IF ivarDecl # NULL /\ ivarDecl \in DOMAIN facts.ivarFactsMap
             /\ message.arg0KnownNil
          THEN Outcome(FALSE,
                       SetIvarMap(state, ivarDecl,
                                  IvarDynamicStateOfFacts(facts.ivarFactsMap[ivarDecl])),
                       v.calls)
          ELSE Outcome(FALSE, state, v.calls)

\* mutant: a non-self setter clears every assign property of the ivar
recordSetter_clearsAll(ivarState, propName, paramIsSelf) ==
  IF ~paramIsSelf
  THEN [ivarState EXCEPT !.assignPropertyWasCleared = @ \cup AssignProps]
  ELSE [ivarState EXCEPT !.assignPropertyWasCleared = @ \ {propName}]

\* mutant: a property once cleared stays cleared
recordSetter_neverUnclear(ivarState, propName, paramIsSelf) ==
  [ivarState EXCEPT !.assignPropertyWasCleared = @ \cup {propName}]

\* checkPostObjCMessage, a setter of an assign property: the property is cleared,
\* or "uncleared" when self is stored in it again
recordSetter(ivarState, propName, paramIsSelf) ==
  IF ~paramIsSelf
  THEN [ivarState EXCEPT !.assignPropertyWasCleared = @ \cup {propName}]
  ELSE [ivarState EXCEPT !.assignPropertyWasCleared = @ \ {propName}]

\* mutant: autorelease is not taken for a manual release
ivarMessageOutcome_releaseOnly(cache, state, topInterface, expr, ivarDecl) ==
  LET paramIsSelf == isObjCSelfExpr(getArgOfObjCMessageExpr(expr, 0))
      ivarState == IvarDynamicStateCopy(state, ivarDecl)
      propDecl == matchObjCMessageWithPropertySetter(expr)
  IN IF expr.selector = s_release
     THEN verifyIvarDynamicStateAgainstStaticFacts(cache, state, topInterface, ivarDecl)
     ELSE IF propDecl # NoProperty
     THEN IF propDecl.setterKind # "Assign" THEN Outcome(FALSE, state, <<>>)
          ELSE Outcome(FALSE,
                       SetIvarMap(state, ivarDecl,
                                  recordSetter(ivarState, propDecl.name, paramIsSelf)),
                       <<>>)
     ELSE IF paramIsSelf /\ startswith(expr.selector, s_removeTargetPrefix)
     THEN Outcome(FALSE, SetIvarMap(state, ivarDecl,
                                    [ivarState EXCEPT !.targetWasCleared = TRUE]), <<>>)
     ELSE IF paramIsSelf /\ startswith(expr.selector, s_removeObserver)
     THEN Outcome(FALSE, SetIvarMap(state, ivarDecl,
                                    [ivarState EXCEPT !.observerWasCleared = TRUE]), <<>>)
     ELSE Outcome(FALSE, state, <<>>)

\* mutant: an assign property counts as cleared only when nil is stored in it
ivarMessageOutcome_nilOnly(cache, state, topInterface, expr, ivarDecl) ==
  LET paramIsSelf == isObjCSelfExpr(getArgOfObjCMessageExpr(expr, 0))
      ivarState == IvarDynamicStateCopy(state, ivarDecl)
      propDecl == matchObjCMessageWithPropertySetter(expr)
  IN IF expr.selector = s_release \/ expr.selector = s_autorelease
     THEN verifyIvarDynamicStateAgainstStaticFacts(cache, state, topInterface, ivarDecl)
     ELSE IF propDecl # NoProperty
     THEN IF propDecl.setterKind # "Assign" THEN Outcome(FALSE, state, <<>>)
          ELSE IF ~paramIsSelf /\ getArgOfObjCMessageExpr(expr, 0) # NilExpr
          THEN Outcome(FALSE, state, <<>>)
          ELSE Outcome(FALSE,
                       SetIvarMap(state, ivarDecl,
                                  recordSetter(ivarState, propDecl.name, paramIsSelf)),
                       <<>>)
     ELSE IF paramIsSelf /\ startswith(expr.selector, s_removeTargetPrefix)
     THEN Outcome(FALSE, SetIvarMap(state, ivarDecl,
                                    [ivarState EXCEPT !.targetWasCleared = TRUE]), <<>>)
     ELSE IF paramIsSelf /\ startswith(expr.selector, s_removeObserver)
     THEN Outcome(FALSE, SetIvarMap(state, ivarDecl,
                                    [ivarState EXCEPT !.observerWasCleared = TRUE]), <<>>)
     ELSE Outcome(FALSE, state, <<>>)

\* checkPostObjCMessage, the receiver is an interesting ivar
ivarMessageOutcome(cache, state, topInterface, expr, ivarDecl) ==
  LET paramIsSelf == isObjCSelfExpr(getArgOfObjCMessageExpr(expr, 0))
      ivarState == IvarDynamicStateCopy(state, ivarDecl)
      propDecl == matchObjCMessageWithPropertySetter(expr)
  IN IF expr.selector = s_release \/ expr.selector = s_autorelease
     THEN verifyIvarDynamicStateAgainstStaticFacts(cache, state, topInterface, ivarDecl)
     ELSE IF propDecl # NoProperty
     THEN IF propDecl.setterKind # "Assign" THEN Outcome(FALSE, state, <<>>)
          ELSE Outcome(FALSE,
                       SetIvarMap(state, ivarDecl,
                                  recordSetter(ivarState, propDecl.name, paramIsSelf)),
                       <<>>)
     ELSE IF paramIsSelf /\ startswith(expr.selector, s_removeTargetPrefix)
     THEN Outcome(FALSE, SetIvarMap(state, ivarDecl,
                                    [ivarState EXCEPT !.targetWasCleared = TRUE]), <<>>)
     ELSE IF paramIsSelf /\ startswith(expr.selector, s_removeObserver)
     THEN Outcome(FALSE, SetIvarMap(state, ivarDecl,
                                    [ivarState EXCEPT !.observerWasCleared = TRUE]), <<>>)
     ELSE Outcome(FALSE, state, <<>>)

\* mutant: a receiver known to be nil is examined like any other
checkPostObjCMessageOutcome_nilReceiver(cache, state, topInterface, message) ==
  LET expr == message.expr
  IN IF message.wasInlined THEN Outcome(FALSE, state, <<>>)
     ELSE IF expr.receiver = NullExpr THEN Outcome(FALSE, state, <<>>)
     ELSE LET r == getCurrentFacts(cache, topInterface)
              selfProp == matchObjCMessageWithPropertySetter(expr)
              ivarDecl == matchIvarLValueExpression(expr.receiver)
          IN IF r.status = "throw" THEN Outcome(TRUE, state, <<>>)
             ELSE IF r.status = "null" THEN Outcome(FALSE, state, <<>>)
             ELSE IF isObjCSelfExpr(expr.receiver) /\ selfProp # NoProperty
             THEN selfSetterOutcome(cache, state, topInterface, r.facts, message, selfProp)
             ELSE IF ivarDecl # NULL /\ ivarDecl \in DOMAIN r.facts.ivarFactsMap
             THEN ivarMessageOutcome(cache, state, topInterface, expr, ivarDecl)
             ELSE Outcome(FALSE, state, <<>>)

checkPostObjCMessageOutcome(cache, state, topInterface, message) ==
  LET expr == message.expr
  IN IF message.wasInlined THEN Outcome(FALSE, state, <<>>)
     ELSE IF expr.receiver = NullExpr THEN Outcome(FALSE, state, <<>>)
     ELSE IF message.receiverKnownNil THEN Outcome(FALSE, state, <<>>)
     ELSE LET r == getCurrentFacts(cache, topInterface)
              selfProp == matchObjCMessageWithPropertySetter(expr)
              ivarDecl == matchIvarLValueExpression(expr.receiver)
          IN IF r.status = "throw" THEN Outcome(TRUE, state, <<>>)
             ELSE IF r.status = "null" THEN Outcome(FALSE, state, <<>>)
             ELSE IF isObjCSelfExpr(expr.receiver) /\ selfProp # NoProperty
             THEN selfSetterOutcome(cache, state, topInterface, r.facts, message, selfProp)
             ELSE IF ivarDecl # NULL /\ ivarDecl \in DOMAIN r.facts.ivarFactsMap
             THEN ivarMessageOutcome(cache, state, topInterface, expr, ivarDecl)
             ELSE Outcome(FALSE, state, <<>>)

\* mutant: the end-of-scope verification ignores the dynamic state
EndFunctionCalls_ignoreState(state, facts, ivars) == ClassLevelCalls(facts, ivars)

\* the loop of checkEndFunction over the ivar facts
RECURSIVE EndFunctionCalls(_, _, _)
EndFunctionCalls(state, facts, ivars) ==
  IF ivars = <<>> THEN <<>>
  ELSE <<VerifyCall(facts.ivarFactsMap[Head(ivars)].mayStoreSelfInUnsafeProperty,
                    IvarDynamicStateCopy(state, Head(ivars)).assignPropertyWasCleared,
                    Head(ivars))>>
       \o EndFunctionCalls(state, facts, Tail(ivars))

\* mutant: the end of dealloc is verified in every language mode
checkEndFunctionOutcome_everyMode(cache, state, topInterface, decl, autoRefCount) ==
  LET r == getCurrentFacts(cache, topInterface)
  IN IF r.status = "throw" THEN Outcome(TRUE, state, <<>>)
     ELSE IF r.status = "null" THEN Outcome(FALSE, state, <<>>)
     ELSE IF ~decl.isMethod \/ decl.name # s_dealloc THEN Outcome(FALSE, state, <<>>)
     ELSE Outcome(FALSE, state, EndFunctionCalls(state, r.facts, FactIvars(r.facts)))

checkEndFunctionOutcome(cache, state, topInterface, decl, autoRefCount) ==
  IF ~autoRefCount THEN Outcome(FALSE, state, <<>>)
  ELSE LET r == getCurrentFacts(cache, topInterface)
       IN IF r.status = "throw" THEN Outcome(TRUE, state, <<>>)
          ELSE IF r.status = "null" THEN Outcome(FALSE, state, <<>>)
          ELSE IF ~decl.isMethod \/ decl.name # s_dealloc THEN Outcome(FALSE, state, <<>>)
          ELSE Outcome(FALSE, state, EndFunctionCalls(state, r.facts, FactIvars(r.facts)))

\* ------------------------------------------------------------ evalAssume
\* symbolic expressions of a branch condition
Conjured(stmt) == [kind |-> "SymbolConjured", stmt |-> stmt]
RegionValue(region) == [kind |-> "SymbolRegionValue", region |-> region]
Derived(region) == [kind |-> "SymbolDerived", region |-> region]
SelfRegion == [kind |-> "DeclRegion", declKind |-> "ImplicitParamDecl", name |-> "self"]
ParamRegion == [kind |-> "DeclRegion", declKind |-> "ParmVarDecl", name |-> "other"]
IvarRegion(f) == [kind |-> "ObjCIvarRegion", decl |-> f]
SymSym(op, lhs, rhs) == [kind |-> "SymSymExpr", op |-> op, lhs |-> lhs, rhs |-> rhs]
SymInt(op, lhs, rhs) == [kind |-> "SymIntExpr", op |-> op, lhs |-> lhs, rhs |-> rhs]
IntSym(op, lhs, rhs) == [kind |-> "IntSymExpr", op |-> op, lhs |-> lhs, rhs |-> rhs]

NoSym == [kind |-> "NULL"]

matchOpcode(op, assumption, wantEquality) ==
  IF op = "BO_EQ" THEN assumption = wantEquality
  ELSE IF op = "BO_NE" THEN assumption # wantEquality
  ELSE FALSE

\* dyn_cast_or_null<A>(sym)
SymCast(A, sym) == IF sym.kind = A THEN sym ELSE NoSym

\* mutant: the operands are matched in one order only
matchConditionWithComparison_noSwitch(cond, assumption, wantEquality, A, B) ==
  IF cond.kind # "SymSymExpr" \/ ~matchOpcode(cond.op, assumption, wantEquality)
  THEN [found |-> FALSE, a |-> NoSym, b |-> NoSym]
  ELSE IF SymCast(A, cond.lhs) # NoSym /\ SymCast(B, cond.rhs) # NoSym
  THEN [found |-> TRUE, a |-> SymCast(A, cond.lhs), b |-> SymCast(B, cond.rhs)]
  ELSE [found |-> FALSE, a |-> NoSym, b |-> NoSym]

matchConditionWithComparison(cond, assumption, wantEquality, A, B) ==
  IF cond.kind # "SymSymExpr" \/ ~matchOpcode(cond.op, assumption, wantEquality)
  THEN [found |-> FALSE, a |-> NoSym, b |-> NoSym]
  ELSE LET symA0 == SymCast(A, cond.lhs)
           symB0 == SymCast(B, cond.rhs)
           switch == symA0 = NoSym /\ symB0 = NoSym
           symA == IF switch THEN SymCast(A, cond.rhs) ELSE symA0
           symB == IF switch THEN SymCast(B, cond.lhs) ELSE symB0
       IN IF symA # NoSym /\ symB # NoSym
          THEN [found |-> TRUE, a |-> symA, b |-> symB]
          ELSE [found |-> FALSE, a |-> NoSym, b |-> NoSym]

matchConditionWithIntComparison(cond, assumption, wantEquality, A) ==
  LET expr == IF cond.kind = "SymIntExpr" THEN SymCast(A, cond.lhs)
              ELSE IF cond.kind = "IntSymExpr" THEN SymCast(A, cond.rhs)
              ELSE NoSym
      val == IF cond.kind = "SymIntExpr" THEN cond.rhs
             ELSE IF cond.kind = "IntSymExpr" THEN cond.lhs
             ELSE 0
  IN IF expr # NoSym /\ cond.kind \in {"SymIntExpr", "IntSymExpr"}
        /\ matchOpcode(cond.op, assumption, wantEquality)
     THEN [found |-> TRUE, a |-> expr, val |-> val]
     ELSE [found |-> FALSE, a |-> NoSym, val |-> 0]

NoMatch == [found |-> FALSE, ivar |-> NULL, prop |-> NoProperty]

matchObjCMessageExprForInterestingDelegate(expr, facts) ==
  IF expr.receiver = NullExpr THEN NoMatch
  ELSE LET ivarDecl == matchIvarLValueExpression(expr.receiver)
           propDecl == matchObjCMessageWithPropertyGetter(expr)
       IN IF ivarDecl = NULL THEN NoMatch
          ELSE IF ivarDecl \notin DOMAIN facts.ivarFactsMap THEN NoMatch
          ELSE IF propDecl = NoProperty THEN NoMatch
          ELSE IF propDecl.setterKind # "Assign" THEN NoMatch
          ELSE [found |-> TRUE, ivar |-> ivarDecl, prop |-> propDecl]

matchConditionWithInterestingDelegateNotEqualToSelf(cond, assumption, facts) ==
  LET m == matchConditionWithComparison(cond, assumption, FALSE,
                                        "SymbolConjured", "SymbolRegionValue")
  IN IF ~m.found THEN NoMatch
     ELSE IF m.b.region.kind # "DeclRegion" THEN NoMatch
     ELSE IF m.b.region.declKind # "ImplicitParamDecl" \/ m.b.region.name # "self"
     THEN NoMatch
     ELSE IF m.a.stmt.kind # "ObjCMessageExpr" THEN NoMatch
     ELSE matchObjCMessageExprForInterestingDelegate(m.a.stmt, facts)

matchConditionWithInterestingDelegateEqualToNil(cond, assumption, facts) ==
  LET m == matchConditionWithIntComparison(cond, assumption, TRUE, "SymbolConjured")
  IN IF ~m.found THEN NoMatch
     ELSE IF m.val # 0 THEN NoMatch
     ELSE IF m.a.stmt.kind # "ObjCMessageExpr" THEN NoMatch
     ELSE matchObjCMessageExprForInterestingDelegate(m.a.stmt, facts)

matchConditionWithInterestingPropertyEqualToNil(cond, assumption, facts) ==
  LET m == matchConditionWithIntComparison(cond, assumption, TRUE, "SymbolConjured")
  IN IF ~m.found THEN NoMatch
     ELSE IF m.val # 0 THEN NoMatch
     ELSE LET expr == m.a.stmt
              ivar0 == matchIvarLValueExpression(expr)
              propDecl == IF expr.kind = "ObjCMessageExpr"
                          THEN matchObjCMessageWithPropertyGetter(expr) ELSE NoProperty
              ivarDecl == IF ivar0 # NULL THEN ivar0 ELSE propDecl.ivar
          IN IF ivar0 = NULL /\ expr.kind # "ObjCMessageExpr" THEN NoMatch
             ELSE IF ivar0 = NULL /\ propDecl = NoProperty THEN NoMatch
             ELSE IF ivarDecl = NULL \/ ivarDecl \notin DOMAIN facts.ivarFactsMap
             THEN NoMatch
             ELSE [found |-> TRUE, ivar |-> ivarDecl, prop |-> NoProperty]

matchConditionWithInterestingIvarEqualToNil(cond, assumption, facts) ==
  LET m1 == matchConditionWithIntComparison(cond, assumption, TRUE, "SymbolRegionValue")
      m2 == matchConditionWithIntComparison(cond, assumption, TRUE, "SymbolDerived")
      m == IF m1.found THEN m1 ELSE m2
  IN IF ~m.found THEN NoMatch
     ELSE IF m.a.region.kind # "ObjCIvarRegion" \/ m.val # 0 THEN NoMatch
     ELSE IF m.a.region.decl = NULL \/ m.a.region.decl \notin DOMAIN facts.ivarFactsMap
     THEN NoMatch
     ELSE [found |-> TRUE, ivar |-> m.a.region.decl, prop |-> NoProperty]

\* mutant: an assumption on one property clears every recorded property of the ivar
evalAssumeOutcome_fullReset(cache, state, cond, assumption) ==
  LET r == getCurrentFacts(cache, state.CurrentObjCInterfaceDecl)
  IN IF r.status = "throw" THEN Outcome(TRUE, state, <<>>)
     ELSE IF r.status = "null" THEN Outcome(FALSE, state, <<>>)
     ELSE
       LET d1 == matchConditionWithInterestingDelegateNotEqualToSelf(cond, assumption, r.facts)
           d2 == matchConditionWithInterestingDelegateEqualToNil(cond, assumption, r.facts)
           i1 == matchConditionWithInterestingPropertyEqualToNil(cond, assumption, r.facts)
           i2 == matchConditionWithInterestingIvarEqualToNil(cond, assumption, r.facts)
           i == IF d1.found THEN d1 ELSE IF d2.found THEN d2 ELSE IF i1.found THEN i1 ELSE i2
       IN IF i.found
          THEN Outcome(FALSE,
                       SetIvarMap(state, i.ivar,
                                  IvarDynamicStateOfFacts(r.facts.ivarFactsMap[i.ivar])),
                       <<>>)
          ELSE Outcome(FALSE, state, <<>>)

evalAssumeOutcome(cache, state, cond, assumption) ==
  LET r == getCurrentFacts(cache, state.CurrentObjCInterfaceDecl)
  IN IF r.status = "throw" THEN Outcome(TRUE, state, <<>>)
     ELSE IF r.status = "null" THEN Outcome(FALSE, state, <<>>)
     ELSE
       LET d1 == matchConditionWithInterestingDelegateNotEqualToSelf(cond, assumption, r.facts)
           d2 == matchConditionWithInterestingDelegateEqualToNil(cond, assumption, r.facts)
           d == IF d1.found THEN d1 ELSE d2
           i1 == matchConditionWithInterestingPropertyEqualToNil(cond, assumption, r.facts)
           i2 == matchConditionWithInterestingIvarEqualToNil(cond, assumption, r.facts)
           i == IF i1.found THEN i1 ELSE i2
       IN IF d.found
          THEN Outcome(FALSE,
                       SetIvarMap(state, d.ivar,
                                  [IvarDynamicStateCopy(state, d.ivar) EXCEPT
                                     !.assignPropertyWasCleared = @ \cup {d.prop.name}]),
                       <<>>)
          ELSE IF i.found
          THEN Outcome(FALSE,
                       SetIvarMap(state, i.ivar,
                                  IvarDynamicStateOfFacts(r.facts.ivarFactsMap[i.ivar])),
                       <<>>)
          ELSE Outcome(FALSE, state, <<>>)

\* ------------------------------------------------------------ analysed paths
\* translation units whose paths are explored
ExampleTUs ==
  { <<ImplDecl("Foo", "Foo", <<m_init_store, m_setupBar_plain, m_dealloc_clear, m_update_stores>>)>>,
    <<ImplDecl("Foo", "Foo", <<m_init_plain, m_dealloc_plain, m_setupBar_plain>>),
      ImplDecl("Baz", "Baz", <<m_update_stores>>)>>,
    <<ImplDecl("Foo", "Foo", <<m_init_store, m_update_target>>)>>,
    <<ImplDecl("Foo", "Foo", <<m_setupBar_plain>>)>>,
    <<ImplDecl("Additions", "Foo", <<m_setupBar_store, m_dealloc_plain>>)>>,
    <<NotScanned(ImplDecl("Foo", "Foo", <<m_update_stores, m_dealloc_plain>>))>> }

\* the statements, messages and conditions the engine may deliver on a path
Statements ==
  {OtherStmt, Assignment(OtherExpr, TRUE, FALSE), Assignment(IvarRef("_bar"), FALSE, FALSE)}
  \cup {Assignment(IvarRef(f), TRUE, n) : f \in Ivars, n \in BOOLEAN}

IvarMessages ==
  {StoreSelf(IvarRef(f), s_setDelegate) : f \in Ivars}
  \cup {StoreNil(IvarRef(f), s_setDelegate) : f \in Ivars}
  \cup {StoreSelf(IvarRef("_bar"), s_setDataSource), StoreNil(IvarRef("_bar"), s_setDataSource),
        StoreNil(SelfGetter(s_bar), s_setDelegate),
        StoreOther(IvarRef("_bar"), s_setDelegate),
        StoreNil(IvarRef("_bar"), s_setOwner),
        Message(IvarRef("_bar"), s_release, <<>>, "Bar", FALSE),
        Message(IvarRef("_view"), s_autorelease, <<>>, "Bar", FALSE),
        Message(IvarRef("_view"), s_removeTarget, <<SelfExpr, OtherExpr>>, "Bar", FALSE),
        AddTargetSelf(IvarRef("_view")),
        AddObserverSelf(IvarRef("_bar"), "Bar"),
        Message(IvarRef("_bar"), s_removeObserver, <<SelfExpr>>, "Bar", FALSE),
        Message(IvarRef("_bar"), s_reload, <<>>, "Bar", FALSE),
        StoreSelf(OtherExpr, s_setDelegate),
        ClassMessage("NSNotificationCenter", s_defaultCenter)}

SelfSetter(setter, arg) == Message(SelfExpr, setter, <<arg>>, "Foo", TRUE)

\* calls the engine inlined. The engine does not evaluate a message whose
\* receiver must be nil, so no post-call event carries such a receiver.
SkippedMessages ==
  {StoreSelf(IvarRef("_bar"), s_setDelegate), StoreNil(IvarRef("_bar"), s_setDelegate),
   Message(IvarRef("_bar"), s_release, <<>>, "Bar", FALSE)}

MethodCalls ==
  {MethodCall(e, FALSE, FALSE, FALSE, "none") : e \in IvarMessages}
  \cup {MethodCall(e, TRUE, FALSE, FALSE, "none") : e \in SkippedMessages}
  \cup {MethodCall(SelfSetter(s_setBar, NilExpr), FALSE, FALSE, TRUE, d) :
          d \in {"none", "implicit", "explicit"}}
  \cup {MethodCall(SelfSetter(s_setBar, OtherExpr), FALSE, FALSE, n, "none") : n \in BOOLEAN}
  \cup {MethodCall(SelfSetter(s_setBar, NilExpr), TRUE, FALSE, TRUE, "explicit"),
        MethodCall(SelfSetter(s_setView, NilExpr), FALSE, FALSE, TRUE, "none"),
        MethodCall(SelfSetter(s_setView, OtherExpr), FALSE, FALSE, FALSE, "implicit")}

Getter(recv, name, intf) == Message(recv, name, <<>>, intf, TRUE)

Conditions ==
  {SymSym(op, Conjured(Getter(IvarRef(f), s_delegate, "Bar")), RegionValue(SelfRegion)) :
     op \in {"BO_EQ", "BO_NE"}, f \in Ivars}
  \cup {SymSym("BO_NE", RegionValue(SelfRegion),
               Conjured(Getter(SelfGetter(s_bar), s_dataSource, "Bar"))),
        SymSym("BO_NE", Conjured(Getter(IvarRef("_bar"), s_delegate, "Bar")),
               RegionValue(ParamRegion)),
        SymSym("BO_LT", Conjured(Getter(IvarRef("_bar"), s_delegate, "Bar")),
               RegionValue(SelfRegion)),
        SymSym("BO_NE", Conjured(Getter(IvarRef("_bar"), s_owner, "Bar")),
               RegionValue(SelfRegion)),
        SymInt("BO_EQ", Conjured(Getter(IvarRef("_bar"), s_delegate, "Bar")), 0),
        IntSym("BO_NE", 0, Conjured(Getter(IvarRef("_view"), s_delegate, "Bar"))),
        SymInt("BO_EQ", Conjured(Getter(IvarRef("_bar"), s_delegate, "Bar")), 1),
        SymInt("BO_EQ", Conjured(Getter(SelfExpr, s_bar, "Foo")), 0),
        SymInt("BO_EQ", Conjured(Getter(OtherExpr, s_bar, "Foo")), 0),
        SymInt("BO_EQ", Conjured(SelfGetter(s_view)), 0),
        SymInt("BO_EQ", RegionValue(IvarRegion("_bar")), 0),
        SymInt("BO_NE", Derived(IvarRegion("_view")), 0),
        SymInt("BO_EQ", RegionValue(SelfRegion), 0)}

\* the directions in which a condition is assumed: the engine follows both
\* branches
Assumptions(cond) == BOOLEAN

\* ------------------------------------------------------------ history of a path
IsMessageEvent(event) == event.kind = "checkPostObjCMessage"

\* the callback is a setter call on f.p that the path tracker examines
ExaminedSetter(event, cache, topDecl, f, p) ==
  /\ IsMessageEvent(event)
  /\ ~event.message.wasInlined /\ ~event.message.receiverKnownNil
  /\ event.message.expr.receiver # NullExpr
  /\ getCurrentTopClassInterface(topDecl) \in DOMAIN cache
  /\ f \in DOMAIN cache[getCurrentTopClassInterface(topDecl)].ivarFactsMap
  /\ matchIvarLValueExpression(event.message.expr.receiver) = f
  /\ matchObjCMessageWithPropertySetter(event.message.expr) # NoProperty
  /\ matchObjCMessageWithPropertySetter(event.message.expr).name = p

\* the message is a setter call on f.p, whether or not the path tracker examines it
SetterCall(event, f, p) ==
  /\ IsMessageEvent(event)
  /\ matchIvarLValueExpression(event.message.expr.receiver) = f
  /\ matchObjCMessageWithPropertySetter(event.message.expr) # NoProperty
  /\ matchObjCMessageWithPropertySetter(event.message.expr).name = p

\* the message stores self in f.p
StoresSelf(event, f, p) ==
  /\ SetterCall(event, f, p)
  /\ isObjCSelfExpr(getArgOfObjCMessageExpr(event.message.expr, 0))

CallKind(h, event, f, p) ==
  IF ~SetterCall(event, f, p) THEN h[f][p].lastCall
  ELSE IF StoresSelf(event, f, p) THEN "self" ELSE "nonself"

\* the condition says f.p is not self, in the direction the branch takes
AssumesNotSelf(event, f, p) ==
  /\ event.kind = "evalAssume"
  /\ event.cond.kind = "SymSymExpr"
  /\ \/ event.cond.op = "BO_NE" /\ event.assumption
     \/ event.cond.op = "BO_EQ" /\ ~event.assumption
  /\ \E g \in {Getter(IvarRef(f), p, "Bar"), Getter(SelfGetter(s_bar), p, "Bar")} :
       /\ matchIvarLValueExpression(g.receiver) = f
       /\ {event.cond.lhs, event.cond.rhs} = {Conjured(g), RegionValue(SelfRegion)}

HistAfter(h, event, cache, topDecl, before, after) ==
  [f \in Ivars |-> [p \in AssignProps |->
     IF ExaminedSetter(event, cache, topDecl, f, p)
     THEN [lastCall |-> CallKind(h, event, f, p),
           lastSetter |-> IF StoresSelf(event, f, p) THEN "self" ELSE "nonself",
           cleared |-> h[f][p].cleared \/ ~StoresSelf(event, f, p),
           otherSince |-> FALSE,
           assumed |-> h[f][p].assumed /\ ~StoresSelf(event, f, p)]
     ELSE [lastCall |-> CallKind(h, event, f, p),
           lastSetter |-> h[f][p].lastSetter,
           cleared |-> h[f][p].cleared,
           otherSince |-> h[f][p].otherSince
                          \/ (~ExaminedSetter(event, cache, topDecl, f, s_delegate)
                              /\ ~ExaminedSetter(event, cache, topDecl, f, s_dataSource)
                              /\ IvarDynamicStateCopy(after, f).assignPropertyWasCleared
                                 # IvarDynamicStateCopy(before, f).assignPropertyWasCleared),
           assumed |-> (h[f][p].assumed /\ ~StoresSelf(event, f, p))
                       \/ AssumesNotSelf(event, f, p)]]]

\* ------------------------------------------------------------ path callbacks
\* the engine starts a path in the body of a top-level declaration
BeginPath(topDecl) ==
  /\ ~crashed /\ ~path.active
  /\ \/ phase = "scan" /\ scanned = ToScan
     \/ phase = "paths"
  /\ phase' = "paths"
  /\ path' = [active |-> TRUE, decl |-> topDecl, inlined |-> <<>>, state |-> EmptyState]
  /\ steps' = 0
  /\ lastEvent' = [kind |-> "BeginPath"]
  /\ lastReports' = <<>>
  /\ verifyCalls' = <<>>
  /\ pathReports' = <<>>
  /\ hist' = NoHist
  /\ UNCHANGED <<tu, arc, implFacts, scanned, crashed, libtooling>>

\* context.getStackFrame()->getDecl(), getCurrentAnalysisDeclContext()->getDecl()
CurrentDecl(p) == IF p.inlined = <<>> THEN p.decl ELSE p.inlined[Len(p.inlined)]

\* the frames the engine may enter by inlining a call: a pseudo-init method and
\* a plain method of the class, the dealloc of a superclass, a C function
InlineDepth == 1
CalleeFrame(name, intf) == [isMethod |-> TRUE, name |-> name, classInterface |-> intf]
Callees ==
  {CalleeFrame(s_setupBar, "Foo"), CalleeFrame(s_update, "Foo"),
   CalleeFrame(s_dealloc, "Base"), FunctionFrame}

\* the engine inlines a call: the callbacks that follow run in the callee's frame
InlineCall(callee) ==
  /\ phase = "paths" /\ path.active /\ ~crashed /\ steps < MaxSteps
  /\ path.state.InitStateWasSet
  /\ Len(path.inlined) < InlineDepth
  /\ path' = [path EXCEPT !.inlined = Append(@, callee)]
  /\ steps' = steps + 1
  /\ lastEvent' = [kind |-> "InlineCall", decl |-> callee]
  /\ lastReports' = <<>>
  /\ verifyCalls' = <<>>
  /\ UNCHANGED <<tu, arc, phase, implFacts, scanned, crashed, pathReports, hist, libtooling>>

\* what a path callback leaves behind
Deliver(event, outcome, declName, ends) ==
  /\ crashed' = outcome.crash
  /\ path' = IF outcome.crash THEN path
             ELSE [path EXCEPT !.state = outcome.state, !.active = ~ends,
                               !.inlined = IF event.kind = "checkEndFunction" /\ @ # <<>>
                                           THEN SubSeq(@, 1, Len(@) - 1) ELSE @]
  /\ steps' = steps + 1
  /\ lastEvent' = event
  /\ verifyCalls' = outcome.calls
  /\ lastReports' = RunCalls(outcome.calls, declName)
  /\ pathReports' = pathReports \o RunCalls(outcome.calls, declName)
  /\ hist' = IF outcome.crash THEN hist
             ELSE HistAfter(hist, event, implFacts, path.decl, path.state, outcome.state)
  /\ implFacts' = CacheAfterLookup(implFacts, getCurrentTopClassInterface(path.decl))
  /\ UNCHANGED <<tu, arc, phase, scanned, libtooling>>

checkPreStmt(stmt) ==
  /\ phase = "paths" /\ path.active /\ ~crashed /\ steps < MaxSteps
  /\ stmt.kind = "BinaryOperator" => path.state.InitStateWasSet
  /\ Deliver([kind |-> "checkPreStmt", stmt |-> stmt],
             checkPreStmtOutcome(implFacts, path.state,
                                 getCurrentTopClassInterface(path.decl), CurrentDecl(path),
                                 arc, stmt),
             <<>>, FALSE)

checkPostObjCMessage(message) ==
  /\ phase = "paths" /\ path.active /\ ~crashed /\ steps < MaxSteps
  /\ path.state.InitStateWasSet
  /\ Deliver([kind |-> "checkPostObjCMessage", message |-> message],
             checkPostObjCMessageOutcome(implFacts, path.state,
                                         getCurrentTopClassInterface(path.decl), message),
             <<>>, FALSE)

evalAssume(cond, assumption) ==
  /\ phase = "paths" /\ path.active /\ ~crashed /\ steps < MaxSteps
  /\ path.state.InitStateWasSet
  /\ Deliver([kind |-> "evalAssume", cond |-> cond, assumption |-> assumption],
             evalAssumeOutcome(implFacts, path.state, cond, assumption),
             <<>>, FALSE)

checkEndFunction ==
  /\ phase = "paths" /\ path.active /\ ~crashed
  /\ Deliver([kind |-> "checkEndFunction"],
             checkEndFunctionOutcome(implFacts, path.state,
                                     getCurrentTopClassInterface(path.decl), CurrentDecl(path),
                                     arc),
             "ARC-generated code", path.inlined = <<>>)

\* ------------------------------------------------------------ the analysis of a translation unit
Init == InitWith(ExampleTUs)

Next ==
  \/ \E i \in DOMAIN tu : i \notin scanned /\ checkASTDecl(i)
  \/ \E i \in DOMAIN tu : \E k \in DOMAIN tu[i].methods :
       BeginPath(MethodFrame(tu[i], tu[i].methods[k]))
  \/ BeginPath(FunctionFrame)
  \/ \E stmt \in Statements : checkPreStmt(stmt)
  \/ \E message \in MethodCalls : checkPostObjCMessage(message)
  \/ \E cond \in Conditions : \E assumption \in Assumptions(cond) :
       evalAssume(cond, assumption)
  \/ \E callee \in Callees : InlineCall(callee)
  \/ checkEndFunction
  \/ checkEndOfTranslationUnit

Spec == Init /\ [][Next]_vars

\* ------------------------------------------------------------ a host that reports nil receivers
\* The guard of checkPostObjCMessage on a receiver known to be nil is exercised
\* with a host that delivers the post-call event for such a message as well.
NilReceiverCalls ==
  {MethodCall(e, FALSE, TRUE, FALSE, "none") :
     e \in {Message(IvarRef("_bar"), s_release, <<>>, "Bar", FALSE),
            Message(IvarRef("_view"), s_autorelease, <<>>, "Bar", FALSE),
            StoreSelf(IvarRef("_bar"), s_setDelegate),
            StoreNil(IvarRef("_bar"), s_setDelegate),
            Message(IvarRef("_view"), s_removeTarget, <<SelfExpr, OtherExpr>>, "Bar", FALSE)}}

NilReceiverTUs ==
  { <<ImplDecl("Foo", "Foo", <<m_init_store, m_setupBar_plain, m_dealloc_clear, m_update_stores>>)>>,
    <<ImplDecl("Additions", "Foo", <<m_setupBar_store, m_dealloc_plain>>)>> }

InitNilReceiver == InitWith(NilReceiverTUs)

NextNilReceiver ==
  \/ Next
  \/ \E message \in NilReceiverCalls : checkPostObjCMessage(message)

SpecNilReceiver == InitNilReceiver /\ [][NextNilReceiver]_vars

\* ------------------------------------------------------------ Verify-and-Report alone
PropNames == {PropOrder[i] : i \in DOMAIN PropOrder}
DeclNames == {"", "ARC-generated code", "ARC-generated dealloc"}

InitVerify == InitWith({<<>>})

\* one call of verifyAndReportDangerousProperties, on any pair of sets
VerifyAndReport(dangerous, cleared, ivarName, declName) ==
  /\ steps = 0
  /\ steps' = steps + 1
  /\ verifyCalls' = <<VerifyCall(dangerous, cleared, ivarName)>>
  /\ lastReports' = verifyAndReportDangerousProperties(dangerous, cleared, ivarName, declName)
  /\ lastEvent' = [kind |-> "verifyAndReportDangerousProperties", declName |-> declName]
  /\ UNCHANGED <<tu, arc, phase, implFacts, scanned, crashed, path, pathReports, hist, libtooling>>

NextVerify ==
  \E dangerous \in SUBSET PropNames : \E cleared \in SUBSET PropNames :
    \E ivarName \in Ivars : \E declName \in DeclNames :
      VerifyAndReport(dangerous, cleared, ivarName, declName)

SpecVerify == InitVerify /\ [][NextVerify]_vars

\* ------------------------------------------------------------ DeduplicationService
\* clients are separate DeduplicationService instances, one per process, all
\* constructed with the same servicePath
MaxClients == 2
MaxCalls == 3
Clients == 1..MaxClients
servicePath == "svc"
Keys == {"k1", "k2", "k3"}

\* std::hash<std::string>: a function of the key alone, not injective
strhash == [key \in Keys |-> IF key = "k3" THEN 2 ELSE 1]

\* "%s/%s-%.16zx": the path, the prefix and the 16 hexadecimal digits of the hash
create_filename(prefix, dir, key) == <<dir, prefix, strhash[key]>>

\* open(file, O_CREAT | O_EXCL, 0644) in a process whose descriptor 0 is or is
\* not in use: fails with -1 when the file exists, else creates it and returns
\* the lowest free descriptor
FreeFd(fd0InUse) == IF fd0InUse THEN 3 ELSE 0

\* open(file, O_CREAT, 0644): succeeds whether or not the file exists
open_O_CREAT(files, file, fd0InUse) ==
  [fd |-> FreeFd(fd0InUse),
   files |-> IF file \in DOMAIN files THEN files ELSE MapSet(files, file, <<>>)]

open_O_CREAT_O_EXCL(files, file, fd0InUse) ==
  IF file \in DOMAIN files
  THEN [fd |-> -1, files |-> files]
  ELSE [fd |-> FreeFd(fd0InUse), files |-> MapSet(files, file, <<>>)]

\* a service instance: its cache and where its call of verifyKey stands
NewClient(fd0InUse) ==
  [cache |-> EmptyMap, pc |-> "idle", key |-> "", fd |-> -1, result |-> FALSE,
   fd0InUse |-> fd0InUse]

Returned(c, key, result) == [client |-> c, key |-> key, result |-> result]

\* verifyKey up to the cache lookup: a hit returns the cached value
verifyKey_lookup(c, key) ==
  /\ dedup.clients # <<>>
  /\ dedup.calls < MaxCalls
  /\ dedup.clients[c].pc = "idle"
  /\ LET client == dedup.clients[c] IN
     IF key \in DOMAIN client.cache
     THEN dedup' = [dedup EXCEPT !.calls = @ + 1,
                                 !.log = Append(@, Returned(c, key, client.cache[key]))]
     ELSE dedup' = [dedup EXCEPT !.calls = @ + 1,
                                 !.clients[c] = [client EXCEPT !.pc = "open", !.key = key]]
  /\ UNCHANGED <<tu, arc, phase, implFacts, scanned, crashed, path, steps, lastEvent,
                 lastReports, verifyCalls, pathReports, hist, writer>>

\* the open system call and result = (fd > 0)
verifyKey_open(c) ==
  /\ dedup.clients # <<>>
  /\ dedup.clients[c].pc = "open"
  /\ LET client == dedup.clients[c]
         file == create_filename("lock", servicePath, client.key)
         opened == open_O_CREAT_O_EXCL(dedup.files, file, client.fd0InUse)
     IN dedup' = [dedup EXCEPT
          !.files = opened.files,
          !.clients[c] = [client EXCEPT !.pc = "opened", !.fd = opened.fd,
                                        !.result = (opened.fd > 0),
                                        !.fd0InUse = @ \/ opened.fd = 0]]
  /\ UNCHANGED <<tu, arc, phase, implFacts, scanned, crashed, path, steps, lastEvent,
                 lastReports, verifyCalls, pathReports, hist, writer>>

\* close(fd) and, under DEBUG, the key written to the file; cache[key] = result
verifyKey_return(c) ==
  /\ dedup.clients # <<>>
  /\ dedup.clients[c].pc = "opened"
  /\ LET client == dedup.clients[c]
         file == create_filename("lock", servicePath, client.key)
     IN dedup' = [dedup EXCEPT
          !.files = IF client.result /\ dedup.debug
                    THEN MapSet(@, file, <<client.key>>) ELSE @,
          !.clients[c] = [client EXCEPT !.pc = "idle", !.fd = -1,
                                        !.cache = MapSet(@, client.key, client.result)],
          !.log = Append(@, Returned(c, client.key, client.result))]
  /\ UNCHANGED <<tu, arc, phase, implFacts, scanned, crashed, path, steps, lastEvent,
                 lastReports, verifyCalls, pathReports, hist, writer>>

InitDedup ==
  /\ AnalyzerInit({<<>>})
  /\ arc = FALSE
  /\ \E debug \in BOOLEAN, fd0 \in [Clients -> BOOLEAN] :
       dedup = [debug |-> debug, files |-> EmptyMap,
                clients |-> [c \in Clients |-> NewClient(fd0[c])],
                calls |-> 0, log |-> <<>>]
  /\ writer = NoWriter

NextDedup ==
  \/ \E c \in Clients, key \in Keys : verifyKey_lookup(c, key)
  \/ \E c \in Clients : verifyKey_open(c)
  \/ \E c \in Clients : verifyKey_return(c)

SpecDedup == InitDedup /\ [][NextDedup]_vars

\* ------------------------------------------------------------ GenWriter (DEBUG)
MaxEvents == 4
MaxElems == 1

\* enum Symbol, enum ContainerSizeKind
Symbols == {"SARRAY", "STUPLE", "SOBJECT", "SVARIANT", "STAG"}
Containers == Symbols \ {"STAG"}
ContainerSizeKinds == {"CSKNONE", "CSKEXACT", "CSKMAX"}

Last(seq) == seq[Len(seq)]
Front(seq) == SubSeq(seq, 1, Len(seq) - 1)

needsTag(sym) == sym = "SOBJECT"

\* what stack_.back() can yield when stack_ is empty: the read is outside the
\* vector, it faults or yields any value of the enum
Fault == "fault"
OutOfBounds == Symbols \cup {Fault}

\* the constructor: containerSizeKind_.push_back(CSKNONE); `value` follows the
\* events against the grammar of an ATD/JSON value and is no state of the code
\* `outOfBounds` remembers that stack_.back() was read on the empty stack_.
GenWriter ==
  [alive |-> TRUE, destroyed |-> FALSE, asserted |-> FALSE, faulted |-> FALSE,
   undefined |-> FALSE, outOfBounds |-> FALSE, events |-> 0, value |-> [open |-> <<>>, top |-> 0, ok |-> TRUE],
   stack |-> <<>>, containerSize |-> <<>>, containerSizeKind |-> <<"CSKNONE">>]

\* the process is still executing defined code of the writer
Running(w) == w.alive /\ ~w.asserted /\ ~w.faulted /\ ~w.undefined

\* assert(cond)
expect(w, cond) == IF Running(w) /\ ~cond THEN [w EXCEPT !.asserted = TRUE] ELSE w

\* assert(P(stack_.back())) when the read may be out of bounds
expectBack(w, ub, P(_)) ==
  IF ~Running(w) THEN w
  ELSE IF w.stack # <<>> THEN expect(w, P(Last(w.stack)))
  ELSE IF ub = Fault THEN [w EXCEPT !.faulted = TRUE, !.outOfBounds = TRUE]
  ELSE expect([w EXCEPT !.outOfBounds = TRUE], P(ub))

enterValue(w) ==
  IF ~Running(w) \/ w.stack = <<>> THEN w
  ELSE expect(w, ~needsTag(Last(w.stack)))

leaveValue(w, ub) ==
  IF ~Running(w) THEN w
  ELSE
    LET w1 == IF Last(w.containerSizeKind) \in {"CSKEXACT", "CSKMAX"}
              THEN [w EXCEPT !.containerSize[Len(w.containerSize)] = @ - 1]
              ELSE w
    IN IF w1.stack = <<>> THEN w1
       ELSE IF Last(w1.stack) = "STAG"
       THEN expectBack([w1 EXCEPT !.stack = Front(@)], ub, needsTag)
       ELSE w1

emitValue(w, ub) == leaveValue(enterValue(w), ub)

enterContainer(w, sym, csk, numElems) ==
  LET w1 == enterValue(w) IN
  IF ~Running(w1) THEN w1
  ELSE [w1 EXCEPT !.stack = Append(@, sym),
                  !.containerSizeKind = Append(@, csk),
                  !.containerSize = IF csk = "CSKNONE" THEN @ ELSE Append(@, numElems)]

\* pop_back on an empty vector leaves the writer in no defined state
pop_stack(w) ==
  IF ~Running(w) THEN w
  ELSE IF w.stack = <<>> THEN [w EXCEPT !.undefined = TRUE]
  ELSE [w EXCEPT !.stack = Front(@)]

\* the switch of leaveContainer: CSKEXACT falls through to CSKMAX
leaveContainerSize(w) ==
  IF ~Running(w) THEN w
  ELSE
    LET kind == Last(w.containerSizeKind)
        w1 == IF kind = "CSKEXACT" THEN expect(w, Last(w.containerSize) = 0) ELSE w
        w2 == IF kind = "CSKNONE" THEN w1
              ELSE expect(expect(w1, w1.containerSize # <<>>), Last(w1.containerSize) >= 0)
        w3 == IF kind = "CSKNONE" \/ ~Running(w2) THEN w2
              ELSE [w2 EXCEPT !.containerSize = Front(@)]
    IN IF ~Running(w3) THEN w3
       ELSE [w3 EXCEPT !.containerSizeKind = Front(@)]

leaveContainer(w, sym, ub) ==
  LET IsSym(top) == top = sym IN
  leaveValue(leaveContainerSize(pop_stack(expectBack(w, ub, IsSym))), ub)

emitTag(w, ub) ==
  LET w1 == expectBack(w, ub, needsTag) IN
  IF ~Running(w1) THEN w1 ELSE [w1 EXCEPT !.stack = Append(@, "STAG")]

\* ~GenWriter
Destroy(w) ==
  LET w1 == expect(expect(expect(w, w.stack = <<>>), Len(w.containerSizeKind) = 1),
                   Last(w.containerSizeKind) = "CSKNONE")
  IN IF ~Running(w1) THEN w1 ELSE [w1 EXCEPT !.alive = FALSE, !.destroyed = TRUE]

\* the events read as an ATD/JSON value: the open containers, innermost last,
\* the number of finished top-level values, and whether the grammar still holds
Frame(sym, csk, numElems) ==
  [sym |-> sym, csk |-> csk, declared |-> numElems, count |-> 0, tagged |-> FALSE]

\* a value starts: in an object it needs a pending tag, at top level it counts
ValueStarts(v) ==
  IF v.open = <<>> THEN [v EXCEPT !.top = @ + 1]
  ELSE LET f == Last(v.open) IN
       [v EXCEPT !.ok = @ /\ (f.sym = "SOBJECT" => f.tagged),
                 !.open[Len(v.open)] = [f EXCEPT !.count = @ + 1, !.tagged = FALSE]]

TagRead(v) ==
  IF v.open = <<>> THEN [v EXCEPT !.ok = FALSE]
  ELSE LET f == Last(v.open) IN
       [v EXCEPT !.ok = @ /\ f.sym = "SOBJECT" /\ ~f.tagged,
                 !.open[Len(v.open)] = [f EXCEPT !.tagged = TRUE]]

ContainerOpens(v, sym, csk, numElems) ==
  LET v1 == ValueStarts(v) IN
  [v1 EXCEPT !.open = Append(@, Frame(sym, csk, numElems))]

ContainerCloses(v, sym) ==
  IF v.open = <<>> THEN [v EXCEPT !.ok = FALSE]
  ELSE LET f == Last(v.open) IN
       [v EXCEPT !.ok = /\ @
                        /\ f.sym = sym
                        /\ ~f.tagged
                        /\ (f.csk = "CSKEXACT" => f.count = f.declared)
                        /\ (f.csk = "CSKMAX" => f.count <= f.declared),
                 !.open = Front(@)]

\* the events so far are one complete well-formed value
WellFormed(v) == v.ok /\ v.open = <<>> /\ v.top = 1

\* the public interface with a size: enterArray(n), enterObject(n),
\* enterTuple(n), enterVariant(tag, hasArg); and without: enterArray(),
\* enterObject(), enterTuple()
Sizes == 0..MaxElems
EnterCalls ==
  {<<"SARRAY", "CSKEXACT", n>> : n \in Sizes}
    \cup {<<"SOBJECT", "CSKMAX", n>> : n \in Sizes}
    \cup {<<"STUPLE", "CSKEXACT", n>> : n \in Sizes}
    \cup {<<"SVARIANT", "CSKEXACT", n>> : n \in {0, 1}}
    \cup {<<sym, "CSKNONE", 0>> : sym \in {"SARRAY", "SOBJECT", "STUPLE"}}

\* one call on the writer: the code's state, the value read, the event count
Event(w, v) ==
  /\ Running(writer)
  /\ writer.events < MaxEvents
  /\ writer' = [w EXCEPT !.events = @ + 1, !.value = v]
  /\ UNCHANGED <<tu, arc, phase, implFacts, scanned, crashed, path, steps, lastEvent,
                 lastReports, verifyCalls, pathReports, hist, dedup>>

\* emitNull, emitBoolean, emitInteger, emitFloat, emitString
WriterEmitValue(ub) == Event(emitValue(writer, ub), ValueStarts(writer.value))

WriterEmitTag(ub) == Event(emitTag(writer, ub), TagRead(writer.value))

WriterEnter(call) ==
  Event(enterContainer(writer, call[1], call[2], call[3]),
        ContainerOpens(writer.value, call[1], call[2], call[3]))

\* leaveArray, leaveObject, leaveTuple, leaveVariant
WriterLeave(sym, ub) ==
  Event(leaveContainer(writer, sym, ub), ContainerCloses(writer.value, sym))

WriterDestroy ==
  /\ Running(writer)
  /\ writer' = Destroy(writer)
  /\ UNCHANGED <<tu, arc, phase, implFacts, scanned, crashed, path, steps, lastEvent,
                 lastReports, verifyCalls, pathReports, hist, dedup>>

\* after pop_back on the empty stack_ the build may do anything: an assertion
\* fires, the process faults, or it runs on to the end of the destructor
WriterUndefined ==
  /\ writer.alive /\ writer.undefined /\ ~writer.asserted /\ ~writer.faulted
  /\ \/ writer' = [writer EXCEPT !.asserted = TRUE]
     \/ writer' = [writer EXCEPT !.faulted = TRUE]
     \/ writer' = [writer EXCEPT !.alive = FALSE, !.destroyed = TRUE]
  /\ UNCHANGED <<tu, arc, phase, implFacts, scanned, crashed, path, steps, lastEvent,
                 lastReports, verifyCalls, pathReports, hist, dedup>>

InitWriter ==
  /\ AnalyzerInit({<<>>})
  /\ arc = FALSE
  /\ dedup = NoClients
  /\ writer = GenWriter

NextWriter ==
  \/ \E ub \in OutOfBounds : WriterEmitValue(ub)
  \/ \E ub \in OutOfBounds : WriterEmitTag(ub)
  \/ \E call \in EnterCalls : WriterEnter(call)
  \/ \E sym \in Containers, ub \in OutOfBounds : WriterLeave(sym, ub)
  \/ WriterDestroy
  \/ WriterUndefined

SpecWriter == InitWriter /\ [][NextWriter]_vars

\* ------------------------------------------------------------ IvarDynamicState compared
\* every value of IvarDynamicState over the assign properties
IvarDynamicStates ==
  [assignPropertyWasCleared : SUBSET AssignProps,
   targetWasCleared : BOOLEAN, observerWasCleared : BOOLEAN]

\* bool operator==(const IvarDynamicState &rhs) const
operator_eq(lhs, rhs) == FALSE

\* void Profile(const llvm::FoldingSetNodeID &ID) const: what it adds to ID
Profile(ivarState, ID) == ID

\* a program state that holds any two values, for _bar and for _view
InitCompare ==
  /\ tu = <<>>
  /\ arc = FALSE
  /\ phase = "paths"
  /\ implFacts = EmptyMap
  /\ scanned = {}
  /\ crashed = FALSE
  /\ \E a, b \in IvarDynamicStates :
       path = [NoPath EXCEPT !.state = SetIvarMap(SetIvarMap(EmptyState, "_bar", a), "_view", b)]
  /\ steps = 0
  /\ lastEvent = NoEvent
  /\ lastReports = <<>>
  /\ verifyCalls = <<>>
  /\ pathReports = <<>>
  /\ hist = NoHist
  /\ dedup = NoClients
  /\ writer = NoWriter

\* the host compares and profiles the values stored for two ivars
Compare(f, g) ==
  /\ steps = 0
  /\ lastEvent' = [kind |-> "operator==",
                   lhs |-> path.state.IvarMap[f], rhs |-> path.state.IvarMap[g],
                   result |-> operator_eq(path.state.IvarMap[f], path.state.IvarMap[g]),
                   profiles |-> <<Profile(path.state.IvarMap[f], <<>>),
                                  Profile(path.state.IvarMap[g], <<>>)>>]
  /\ steps' = steps + 1
  /\ UNCHANGED <<tu, arc, phase, implFacts, scanned, crashed, path, lastReports,
                 verifyCalls, pathReports, hist, libtooling>>

NextCompare == \E f, g \in Ivars : Compare(f, g)

SpecCompare == InitCompare /\ [][NextCompare]_vars

\* ------------------------------------------------------------ claims: vocabulary
Count(seq, x) == Cardinality({i \in DOMAIN seq : seq[i] = x})

\* the reports of a sequence that name property p of ivar f
CountFor(seq, f, p) == Cardinality({i \in DOMAIN seq : seq[i].ivar = f /\ seq[i].prop = p})

\* message msg stores self into the non-owning property p of field f
IsSelfStore(msg, f, p) ==
  /\ msg.receiver # NullExpr
  /\ matchIvarLValueExpression(msg.receiver) = f
  /\ isObjCSelfExpr(getArgOfObjCMessageExpr(msg, 0))
  /\ LET propDecl == matchObjCMessageWithPropertySetter(msg)
     IN propDecl # NoProperty /\ propDecl.setterKind = "Assign" /\ propDecl.name = p

SelfStores(methDecl) ==
  { fp \in Ivars \X AssignProps :
      \E k \in DOMAIN methDecl.body : IsSelfStore(methDecl.body[k], fp[1], fp[2]) }

IsPseudoInit(methDecl) ==
  methDecl.family = "OMF_init" \/ HasPseudoInitPrefix(methDecl.name)

AllSelfStores(implDecl) ==
  UNION { SelfStores(implDecl.methods[k]) : k \in DOMAIN implDecl.methods }

HasMethodNamed(implDecl, name) ==
  \E k \in DOMAIN implDecl.methods : implDecl.methods[k].name = name

\* the last callback was the first scan of a class, under automatic release
FirstScanUnderARC ==
  lastEvent.kind = "checkASTDecl" /\ lastEvent.first /\ arc

ScannedDecl == tu[lastEvent.decl]

\* the class whose method the current path analyses
TopClass == getCurrentTopClassInterface(path.decl)

\* p is recorded as possibly holding self in f, in the facts of the path's class
Recorded(f, p) ==
  /\ TopClass \in DOMAIN implFacts
  /\ f \in DOMAIN implFacts[TopClass].ivarFactsMap
  /\ p \in implFacts[TopClass].ivarFactsMap[f].mayStoreSelfInUnsafeProperty

\* a path through dealloc has just ended, under ARC
EndOfTeardown ==
  /\ lastEvent.kind = "checkEndFunction" /\ ~crashed /\ arc
  /\ ~path.active
  /\ path.decl.isMethod /\ path.decl.name = s_dealloc

\* ------------------------------------------------------------ C1
\* C1 as stated: on each path through dealloc under ARC, for every recorded
\* (f, p): no diagnostic for (f, p) is emitted on the path when the last setter
\* call on f.p cleared it, and exactly one when p was never cleared.
C1_Original_PathDiagnostics ==
  EndOfTeardown =>
    \A f \in Ivars : \A p \in AssignProps :
      Recorded(f, p) =>
        /\ hist[f][p].lastSetter = "nonself" => CountFor(pathReports, f, p) = 0
        /\ ~hist[f][p].cleared => CountFor(pathReports, f, p) = 1

\* C1, amended: at the end of each path through dealloc under ARC, the
\* end-of-scope verification files, for every recorded (f, p), no diagnostic
\* when the last examined setter call on f.p had a non-self argument, and exactly
\* one when no examined setter call cleared p and no assumption or reset changed
\* the cleared set of f.
C1_EndOfTeardownVerification ==
  EndOfTeardown =>
    \A f \in Ivars : \A p \in AssignProps :
      Recorded(f, p) =>
        /\ hist[f][p].lastSetter = "nonself" => CountFor(lastReports, f, p) = 0
        /\ (~hist[f][p].cleared /\ ~hist[f][p].otherSince)
             => CountFor(lastReports, f, p) = 1

C1_Witness ==
  /\ EndOfTeardown
  /\ \E f \in Ivars : \E p \in AssignProps :
       Recorded(f, p) /\ hist[f][p].lastSetter = "nonself" /\ CountFor(lastReports, f, p) = 0
  /\ \E f \in Ivars : \E p \in AssignProps :
       Recorded(f, p) /\ ~hist[f][p].cleared /\ ~hist[f][p].otherSince
       /\ CountFor(lastReports, f, p) = 1

\* ------------------------------------------------------------ C2
PathCallbacks == {"checkPreStmt", "checkPostObjCMessage", "evalAssume", "checkEndFunction"}

\* the facts of class c are cached and hold no interesting ivar
NoInterestingField(c) ==
  c \in DOMAIN implFacts /\ implFacts[c].ivarFactsMap = EmptyMap

\* C2: a callback that runs for a class whose facts hold no interesting ivar
\* (the scan of its implementation, or a callback on a path through one of its
\* methods) files no report, with or without a dealloc method.
C2_NoInterestingFieldNoDiagnostic ==
  /\ (lastEvent.kind = "checkASTDecl" /\ NoInterestingField(tu[lastEvent.decl].name))
       => lastReports = <<>>
  /\ (lastEvent.kind \in PathCallbacks /\ NoInterestingField(TopClass))
       => (lastReports = <<>> /\ pathReports = <<>>)

C2_Witness ==
  /\ EndOfTeardown /\ NoInterestingField(TopClass)
  /\ \E c \in DOMAIN implFacts : ~NoInterestingField(c)
  /\ \E f \in Ivars : \E p \in AssignProps : hist[f][p].lastSetter = "none"
  /\ steps > 2
  /\ lastReports = <<>>

\* the class-wide scan of a class with no interesting ivar and no dealloc, under ARC
C2_WitnessScan ==
  /\ lastEvent.kind = "checkASTDecl" /\ arc
  /\ NoInterestingField(tu[lastEvent.decl].name)
  /\ ~implFacts[tu[lastEvent.decl].name].hasDealloc

\* ------------------------------------------------------------ C5
\* f has an entry in the ivar facts of the path's class
Interesting(f) ==
  TopClass \in DOMAIN implFacts /\ f \in DOMAIN implFacts[TopClass].ivarFactsMap

\* the cleared set of f in the program state of the path
ClearedSet(f) == IvarDynamicStateCopy(path.state, f).assignPropertyWasCleared

\* C5 as stated: after any sequence of setter calls on f.p, with no other event
\* changing the cleared set of f since, p is in the cleared set of f iff the last
\* such call had a non-self argument.
C5_Original_LastCallDecides ==
  ~crashed =>
    \A f \in Ivars : \A p \in AssignProps :
      (Interesting(f) /\ hist[f][p].lastCall # "none" /\ ~hist[f][p].otherSince)
        => (p \in ClearedSet(f) <=> hist[f][p].lastCall = "nonself")

\* C5, amended: for an interesting ivar f and an assign property p, once the path
\* tracker has examined setter calls on f.p (calls that were not inlined and
\* whose receiver is not known to be nil) and no other event changed the cleared
\* set of f since the last of them, p is in the cleared set of f iff that last
\* call had a non-self argument; in particular clearing p and then storing self
\* again leaves p not cleared.
C5_LastSetterDecides ==
  ~crashed =>
    \A f \in Ivars : \A p \in AssignProps :
      (Interesting(f) /\ hist[f][p].lastSetter # "none" /\ ~hist[f][p].otherSince)
        => (p \in ClearedSet(f) <=> hist[f][p].lastSetter = "nonself")

\* the property was cleared, then self was stored in it again
C5_Witness ==
  \E f \in Ivars : \E p \in AssignProps :
    /\ Interesting(f) /\ path.active
    /\ ExaminedSetter(lastEvent, implFacts, path.decl, f, p)
    /\ hist[f][p].cleared /\ hist[f][p].lastSetter = "self"
    /\ p \notin ClearedSet(f)

\* ------------------------------------------------------------ C6
\* the callback verified ivar f against a dangerous set that holds p
Verified(f, p) ==
  \E i \in DOMAIN verifyCalls : verifyCalls[i].ivar = f /\ p \in verifyCalls[i].dangerous

\* C6: on a path where "f.p != self" was assumed true (or "f.p == self" assumed
\* false) and no later call stored self in f.p, no verification (field write,
\* release, setter of self, end of dealloc) files a report for (f, p).
C6_AssumedNotSelfSilences ==
  ~crashed =>
    \A f \in Ivars : \A p \in AssignProps :
      hist[f][p].assumed => CountFor(lastReports, f, p) = 0

\* a verification of f ran after the assumption, and only the assumption keeps
\* (f, p) from being reported
C6_Witness ==
  \E f \in Ivars : \E p \in AssignProps :
    /\ Recorded(f, p) /\ hist[f][p].assumed /\ hist[f][p].lastSetter = "none"
    /\ lastEvent.kind \in PathCallbacks /\ Verified(f, p)
    /\ CountFor(lastReports, f, p) = 0

\* ------------------------------------------------------------ C7
\* the path analyses a method the facts classify as pseudo-init
InPseudoInit ==
  /\ path.decl.isMethod /\ TopClass \in DOMAIN implFacts
  /\ path.decl.name \in implFacts[TopClass].pseudoInitMethods

\* a direct write to an ivar was just delivered
FieldWrite ==
  /\ lastEvent.kind = "checkPreStmt" /\ ~crashed
  /\ lastEvent.stmt.kind = "BinaryOperator"
  /\ lastEvent.stmt.lhs.kind = "ObjCIvarRefExpr"

MissingFacts == TopClass # NULL /\ TopClass \notin DOMAIN implFacts

\* C9 as stated: when the class of the path has no entry in the cache, every
\* path callback completes normally and files no report.
C9_Original_MissingFactsAreNoOp ==
  (lastEvent.kind \in PathCallbacks /\ MissingFacts) => (~crashed /\ lastReports = <<>>)

\* ------------------------------------------------------------ C10
RECURSIVE Uncleared(_)
Uncleared(calls) ==
  IF calls = <<>> THEN 0
  ELSE Cardinality(Head(calls).dangerous \ Head(calls).cleared) + Uncleared(Tail(calls))

\* C10: a call of Verify-and-Report with the dangerous set M and the cleared set
\* C files exactly one report for each property of M \ C and none for any other
\* property, so the number of reports is |M \ C|.
C10_OneReportPerUnclearedProperty ==
  /\ \A i \in DOMAIN verifyCalls : \A p \in PropNames :
       CountFor(lastReports, verifyCalls[i].ivar, p) =
         IF p \in verifyCalls[i].dangerous \ verifyCalls[i].cleared THEN 1 ELSE 0
  /\ Len(lastReports) = Uncleared(verifyCalls)

\* C is not a subset of M, and two properties of M are not in C
C10_Witness ==
  /\ lastEvent.kind = "verifyAndReportDangerousProperties"
  /\ \E i \in DOMAIN verifyCalls :
       /\ verifyCalls[i].cleared \ verifyCalls[i].dangerous # {}
       /\ verifyCalls[i].cleared \cap verifyCalls[i].dangerous # {}
       /\ Cardinality(verifyCalls[i].dangerous \ verifyCalls[i].cleared) = 2
  /\ Len(lastReports) = 2

\* ------------------------------------------------------------ C11
\* the returns of verifyKey, in the order they happened
Returns == dedup.log
ReturnsOf(key) == {i \in DOMAIN Returns : Returns[i].key = key}

\* C11: among clients that share one servicePath, under every interleaving of
\* their calls of verifyKey, at most one client receives true for a key; after
\* a client has received true every return to another client for that key is
\* false; and a client's later calls for a key return what its first call did.
C11_AtMostOneClientOwnsKey ==
  \A key \in Keys :
    /\ Cardinality({Returns[i].client : i \in {j \in ReturnsOf(key) : Returns[j].result}}) <= 1
    /\ \A i, j \in ReturnsOf(key) :
         i < j =>
           /\ Returns[i].result /\ Returns[j].client # Returns[i].client
                => ~Returns[j].result
           /\ Returns[j].client = Returns[i].client
                => Returns[j].result = Returns[i].result

\* two clients raced for one key, one got true and then asked again, the other
\* got false
C11_Witness ==
  \E i, j, k \in DOMAIN Returns :
    /\ i < j /\ i < k
    /\ Returns[i].key = Returns[j].key /\ Returns[i].key = Returns[k].key
    /\ Returns[i].result /\ Returns[k].result /\ ~Returns[j].result
    /\ Returns[i].client = Returns[k].client
    /\ Returns[i].client # Returns[j].client

\* ------------------------------------------------------------ C12
\* the destructor ran to its end: no assertion fired on the way
DestroyedSilently == writer.destroyed /\ ~writer.asserted

\* C12: built with DEBUG, GenWriter fires an assertion, at the latest in its
\* destructor, for every sequence of events that is not one well-formed value:
\* untagged value in an object, misplaced or doubled tag, mismatched leave,
\* wrong element count, unclosed container, zero or several top-level values.
C12_Original_IllFormedEventsAssert ==
  DestroyedSilently => WellFormed(writer.value)

\* what the assertions do catch: when no call read stack_.back() on the empty
\* stack_ and exactly one top-level value was written, a writer destroyed
\* without assertion has seen a well-formed value
C12_NestedViolationsAssert ==
  DestroyedSilently /\ ~writer.outOfBounds /\ writer.value.top = 1
    => WellFormed(writer.value)

\* two complete top-level values, no assertion
C12_TwoTopLevelValues ==
  DestroyedSilently /\ ~writer.outOfBounds /\ writer.value.ok /\ writer.value.top = 2

\* a tag at top level followed by a value, no assertion
C12_TopLevelTag ==
  DestroyedSilently /\ ~writer.undefined /\ ~writer.value.ok /\ writer.value.top = 1

\* ------------------------------------------------------------ C13
\* one of the three signals of an IvarFacts record holds
HasSignal(ivarFacts) ==
  \/ ivarFacts.mayStoreSelfInUnsafeProperty # {}
  \/ ivarFacts.mayTargetSelf
  \/ ivarFacts.mayObserveSelf

\* the scanned implementation passes self to f through a call that is no signal
PassesSelfWithoutSignal(implDecl, f) ==
  \E i \in DOMAIN implDecl.methods :
    \E j \in DOMAIN implDecl.methods[i].body :
      LET expr == implDecl.methods[i].body[j] IN
      /\ expr.receiver # NullExpr
      /\ matchIvarLValueExpression(expr.receiver) = f
      /\ isObjCSelfExpr(getArgOfObjCMessageExpr(expr, 0))
      /\ LET propDecl == matchObjCMessageWithPropertySetter(expr) IN
         ~(propDecl # NoProperty /\ propDecl.setterKind = "Assign")
      /\ ~startswith(expr.selector, s_addTargetPrefix)
      /\ ~startswith(expr.selector, s_addObserver)

\* C13: in every ObjCImplFacts the fact-finder builds, an ivar has an entry in
\* _ivarFactsMap iff one of its three signals holds; no default IvarFacts
\* record is stored, whatever was visited.
C13_EntryIffSignal ==
  \A name \in DOMAIN implFacts :
    LET facts == implFacts[name] IN
    /\ DOMAIN facts.ivarFactsMap \subseteq Ivars
    /\ \A f \in Ivars :
         f \in DOMAIN facts.ivarFactsMap <=> HasSignal(IvarFactsAt(facts, f))
    /\ \A f \in DOMAIN facts.ivarFactsMap : facts.ivarFactsMap[f] # IvarFacts0

\* a scan that saw self passed to _view by an unrecognized selector and to _bar
\* by an owning setter, and recorded facts for another field only
C13_Witness ==
  /\ lastEvent.kind = "checkASTDecl"
  /\ ScannedDecl.name \in DOMAIN implFacts
  /\ PassesSelfWithoutSignal(ScannedDecl, "_view")
  /\ PassesSelfWithoutSignal(ScannedDecl, "_bar")
  /\ \E f \in Ivars :
       /\ f \in DOMAIN implFacts[ScannedDecl.name].ivarFactsMap
       /\ \E g \in Ivars \ {f} : g \notin DOMAIN implFacts[ScannedDecl.name].ivarFactsMap

\* ------------------------------------------------------------ C14
\* the properties recorded as possibly holding self in f, for the path's class
MayStore(f) ==
  IF Interesting(f)
  THEN implFacts[TopClass].ivarFactsMap[f].mayStoreSelfInUnsafeProperty ELSE {}

\* the cleared properties of f that the facts do not record
UnrecordedCleared(f) == ClearedSet(f) \ MayStore(f)

\* C14 as stated: on every path, for every ivar with an IvarDynamicState, the
\* cleared set is a subset of the properties the facts record for that ivar.
C14_Original_ClearedSubsetOfRecorded ==
  (path.active /\ ~crashed) =>
    \A f \in DOMAIN path.state.IvarMap : ClearedSet(f) \subseteq MayStore(f)

\* the symbols of a condition that stand for the result of a message
ConjuredMessages(cond) ==
  LET syms == IF cond.kind = "SymSymExpr" THEN {cond.lhs, cond.rhs}
              ELSE IF cond.kind = "SymIntExpr" THEN {cond.lhs}
              ELSE IF cond.kind = "IntSymExpr" THEN {cond.rhs}
              ELSE {}
  IN {sym.stmt : sym \in {y \in syms : y.kind = "SymbolConjured"}}

\* the event is an examined setter call that stores a non-self value in f.p
ClearsByCall(event, f, p) ==
  ExaminedSetter(event, implFacts, path.decl, f, p) /\ ~StoresSelf(event, f, p)

\* the event is a branch assumption on a condition that reads f.p
ClearsByAssumption(event, f, p) ==
  /\ event.kind = "evalAssume"
  /\ \E expr \in ConjuredMessages(event.cond) :
       /\ expr.kind = "ObjCMessageExpr" /\ expr.receiver # NullExpr
       /\ matchIvarLValueExpression(expr.receiver) = f
       /\ matchObjCMessageWithPropertyGetter(expr) # NoProperty
       /\ matchObjCMessageWithPropertyGetter(expr).name = p

\* C14, amended: the cleared set of an ivar holds names of assign properties
\* only, and a property that the facts do not record for the ivar enters it
\* only by an examined setter call storing a non-self value in that property,
\* or by a branch assumption on that property; the initial state and every
\* other event add recorded properties only.
C14_UnrecordedEnterByClearing ==
  [][(path.active /\ path'.active /\ ~crashed' /\ lastEvent'.kind \in PathCallbacks) =>
       \A f \in Ivars :
         /\ ClearedSet(f)' \subseteq AssignProps
         /\ UnrecordedCleared(f)' \subseteq
              UnrecordedCleared(f)
                \cup {p \in AssignProps : \/ ClearsByCall(lastEvent', f, p)
                                          \/ ClearsByAssumption(lastEvent', f, p)}]_vars

\* a non-self setter call on a property of an interesting ivar that was never
\* recorded as possibly holding self
C14_Witness ==
  \E f \in Ivars : \E p \in AssignProps :
    /\ path.active /\ ~crashed
    /\ Interesting(f) /\ ~Recorded(f, p)
    /\ ClearsByCall(lastEvent, f, p)
    /\ p \in ClearedSet(f)

\* ------------------------------------------------------------ C15
\* C15: IvarDynamicState values are compared by structure: two values with the
\* same cleared set, target flag and observer flag compare equal, so every
\* value equals itself, and values that differ in a component compare unequal.
C15_Original_StructuralComparison ==
  lastEvent.kind = "operator==" =>
    (lastEvent.result <=> lastEvent.lhs = lastEvent.rhs)

\* the half that holds: values that differ never compare equal
C15_DifferentValuesCompareUnequal ==
  (lastEvent.kind = "operator==" /\ lastEvent.lhs # lastEvent.rhs) => ~lastEvent.result

\* a value was compared with itself and an equal value stored for another ivar
C15_SelfComparison ==
  /\ lastEvent.kind = "operator=="
  /\ lastEvent.lhs = lastEvent.rhs
  /\ path.state.IvarMap["_bar"] = path.state.IvarMap["_view"]

\* ------------------------------------------------------------ C16
\* the step is a callback of the current path, or the entry into an inlined call
PathStep ==
  /\ path.active /\ ~crashed'
  /\ lastEvent'.kind \in PathCallbacks \cup {"InlineCall"}

\* C16: on every path InitStateWasSet and CurrentObjCInterfaceDecl are set at
\* the first pre-statement callback and never change afterwards; the reset of
\* the ivar states for a pseudo-init method can happen at that callback only,
\* never at a later statement, the first statement of an inlined pseudo-init
\* callee included.
C16_InitialStateSetOnce ==
  [][PathStep =>
       /\ (~path.state.InitStateWasSet /\ lastEvent'.kind = "checkPreStmt")
            => /\ path'.state.InitStateWasSet
               /\ path'.state.CurrentObjCInterfaceDecl = TopClass
       /\ (~path.state.InitStateWasSet /\ lastEvent'.kind # "checkPreStmt")
            => path'.state = path.state
       /\ path.state.InitStateWasSet
            => /\ path'.state.InitStateWasSet
               /\ path'.state.CurrentObjCInterfaceDecl = path.state.CurrentObjCInterfaceDecl
               /\ lastEvent'.kind = "checkPreStmt" => path'.state = path.state]_vars

\* a statement of an inlined pseudo-init callee, on a path that began in a
\* method that is not pseudo-init and has an interesting ivar not fully cleared
C16_Witness ==
  /\ path.active /\ ~crashed
  /\ lastEvent.kind = "checkPreStmt"
  /\ path.inlined # <<>>
  /\ TopClass \in DOMAIN implFacts
  /\ CurrentDecl(path).isMethod
  /\ CurrentDecl(path).name \in implFacts[TopClass].pseudoInitMethods
  /\ path.decl.name \notin implFacts[TopClass].pseudoInitMethods
  /\ \E f \in Ivars :
       /\ Interesting(f)
       /\ MayStore(f) # {}
       /\ ClearedSet(f) # MayStore(f)

\* ------------------------------------------------------------ C17
\* the first statement callback of the path has just returned
AfterFirstStatement ==
  /\ path.active /\ ~crashed
  /\ lastEvent.kind = "checkPreStmt" /\ steps = 1

C17_WitnessOther ==
  /\ AfterFirstStatement /\ ~InPseudoInit
  /\ \E f \in Ivars : Interesting(f) /\ MayStore(f) # {}

\* ------------------------------------------------------------ C18
\* the ivar a direct write assigns, and what the engine knows of the write
WrittenIvar == lastEvent.stmt.lhs.decl
PreviousValueKnownNil == lastEvent.stmt.previousValueKnownNil

\* the callback called verifyAndReportDangerousProperties
VerifyRan == verifyCalls # <<>>

\* C18 as stated: a direct write to an ivar runs the verification of that ivar
\* iff the ivar is interesting and its previous value is not known to be nil.
C18_Original_FieldWriteVerifies ==
  (FieldWrite /\ path.active) =>
    (VerifyRan <=> (Interesting(WrittenIvar) /\ ~PreviousValueKnownNil))

\* C18, amended: a direct write to an ivar runs the verification of that ivar
\* iff the code is compiled with automatic reference counting, the assigned
\* expression has an Objective-C interface pointer type, the ivar is interesting
\* and its previous value is not known to be nil; the verification then uses
\* the cleared set the ivar has before the write, and the write changes the
\* IvarDynamicState of no ivar.
C18_FieldWriteUnderARC ==
  [][(path.active /\ path'.active /\ FieldWrite') =>
       /\ VerifyRan' <=> /\ arc
                         /\ lastEvent'.stmt.lhsIsObjCInterfacePointer
                         /\ Interesting(WrittenIvar')
                         /\ ~PreviousValueKnownNil'
       /\ VerifyRan' =>
            verifyCalls' = <<VerifyCall(MayStore(WrittenIvar'), ClearedSet(WrittenIvar'),
                                        WrittenIvar')>>
       /\ path'.state.IvarMap = path.state.IvarMap]_vars

\* under ARC, a write to an interesting ivar with a property cleared and another
\* one not cleared: the verification ran and reported
C18_Witness ==
  /\ FieldWrite /\ path.active /\ arc /\ VerifyRan
  /\ Interesting(WrittenIvar)
  /\ ClearedSet(WrittenIvar) \cap MayStore(WrittenIvar) # {}
  /\ lastReports # <<>>

\* without ARC, a write to an interesting ivar whose previous value is not
\* known to be nil: no verification
C18_WitnessNoARC ==
  /\ FieldWrite /\ path.active /\ ~arc /\ ~VerifyRan
  /\ Interesting(WrittenIvar) /\ ~PreviousValueKnownNil
  /\ MayStore(WrittenIvar) # {}

\* ------------------------------------------------------------ C19
\* the ivar that backs the property a setter message sets
BackingIvar(expr) ==
  IF matchObjCMessageWithPropertySetter(expr) = NoProperty THEN NULL
  ELSE matchObjCMessageWithPropertySetter(expr).ivar

\* the last callback is the post-call event of a property setter called on self,
\* for a property backed by an interesting ivar
SelfSetterCall ==
  /\ lastEvent.kind = "checkPostObjCMessage" /\ ~crashed /\ path.active
  /\ lastEvent.message.expr.receiver # NullExpr
  /\ isObjCSelfExpr(lastEvent.message.expr.receiver)
  /\ BackingIvar(lastEvent.message.expr) # NULL
  /\ Interesting(BackingIvar(lastEvent.message.expr))

ImplementationUnknown == lastEvent.message.runtimeDefinition \in {"none", "implicit"}

\* C19: a call of a property setter on self, for a property backed by an
\* interesting ivar, runs the verification of that ivar iff the setter has no
\* resolvable body or an implicit one; with an explicit body nothing is reported.
C19_SelfSetterVerifies ==
  SelfSetterCall =>
    /\ VerifyRan <=> ImplementationUnknown
    /\ VerifyRan => /\ Len(verifyCalls) = 1
                    /\ verifyCalls[1].ivar = BackingIvar(lastEvent.message.expr)
    /\ ~ImplementationUnknown => lastReports = <<>>

\* a setter on self with an implicit definition only, verified and reported
C19_Witness ==
  /\ SelfSetterCall /\ VerifyRan
  /\ lastEvent.message.runtimeDefinition = "implicit"
  /\ lastReports # <<>>

\* a setter on self with an explicit body, not inlined: nothing verified
C19_WitnessExplicit ==
  /\ SelfSetterCall /\ ~VerifyRan
  /\ lastEvent.message.runtimeDefinition = "explicit"
  /\ ~lastEvent.message.wasInlined
  /\ MayStore(BackingIvar(lastEvent.message.expr)) # {}

\* ------------------------------------------------------------ C20
\* the ivar behind the setter of the last post-call event
SetIvar == BackingIvar(lastEvent.message.expr)

\* C20: after a call of a property setter on self without resolvable or with an
\* implicit body, for a property backed by an interesting ivar: when the
\* argument is known to be nil, the cleared set of that ivar is all of its
\* recorded properties, whatever it was, and the state of no other ivar changes;
\* when the argument is not known to be nil, the state of no ivar changes.
C20_NilArgumentResetsIvar ==
  [][(path.active /\ SelfSetterCall' /\ ImplementationUnknown') =>
       IF lastEvent'.message.arg0KnownNil
       THEN /\ IvarDynamicStateCopy(path'.state, SetIvar').assignPropertyWasCleared
              = MayStore(SetIvar')
            /\ path'.state.IvarMap =
                 MapSet(path.state.IvarMap, SetIvar', path'.state.IvarMap[SetIvar'])
       ELSE path'.state = path.state]_vars

\* self was stored in a property of the ivar, then the setter on self was
\* called with nil: the property is cleared again, another ivar keeps its state
C20_Witness ==
  /\ SelfSetterCall /\ ImplementationUnknown
  /\ lastEvent.message.arg0KnownNil
  /\ \E p \in MayStore(SetIvar) :
       hist[SetIvar][p].lastSetter = "self" /\ p \in ClearedSet(SetIvar)
  /\ \E g \in Ivars \ {SetIvar} : g \in DOMAIN path.state.IvarMap

\* ------------------------------------------------------------ C21
\* the ivar that receives the message of the last post-call event
CalledIvar == matchIvarLValueExpression(lastEvent.message.expr.receiver)

\* the last callback is the post-call event of a message sent to the object of
\* an interesting ivar
FieldCall ==
  /\ lastEvent.kind = "checkPostObjCMessage" /\ ~crashed /\ path.active
  /\ lastEvent.message.expr.receiver # NullExpr
  /\ CalledIvar # NULL /\ Interesting(CalledIvar)

\* the property whose setter the message is, NoProperty when it is no setter
CalledSetter == matchObjCMessageWithPropertySetter(lastEvent.message.expr)

FirstArgument == getArgOfObjCMessageExpr(lastEvent.message.expr, 0)

\* the call was not inlined and its receiver is not known to be nil
Examined == ~lastEvent.message.wasInlined /\ ~lastEvent.message.receiverKnownNil

\* the IvarDynamicState of every ivar but f is the same in both program states
OthersUnchanged(before, after, f) ==
  \A g \in Ivars \ {f} :
    /\ g \in DOMAIN after.IvarMap <=> g \in DOMAIN before.IvarMap
    /\ IvarDynamicStateCopy(after, g) = IvarDynamicStateCopy(before, g)

\* what the claim says of a setter call on the object of an interesting ivar
SetterTransition(before, after, f, propDecl, arg) ==
  IF propDecl.setterKind = "Assign"
  THEN /\ IvarDynamicStateCopy(after, f).assignPropertyWasCleared =
            IF isObjCSelfExpr(arg)
            THEN IvarDynamicStateCopy(before, f).assignPropertyWasCleared \ {propDecl.name}
            ELSE IvarDynamicStateCopy(before, f).assignPropertyWasCleared \cup {propDecl.name}
       /\ IvarDynamicStateCopy(after, f).targetWasCleared =
            IvarDynamicStateCopy(before, f).targetWasCleared
       /\ IvarDynamicStateCopy(after, f).observerWasCleared =
            IvarDynamicStateCopy(before, f).observerWasCleared
       /\ OthersUnchanged(before, after, f)
  ELSE after = before

\* C21 as stated: every call on the object of an interesting ivar that matches
\* a setter of an assign property p removes p from the cleared set of the ivar
\* when the argument is self and adds it otherwise, and changes nothing else; a
\* setter of an owning property changes nothing.
C21_Original_SetterCallRecorded ==
  [][(path.active /\ FieldCall' /\ CalledSetter' # NoProperty) =>
       SetterTransition(path.state, path'.state, CalledIvar', CalledSetter', FirstArgument')]_vars

\* C21, amended: the same, for the calls the engine did not inline and whose
\* receiver is not known to be nil; the post-call event of an inlined call
\* changes nothing.
C21_ExaminedSetterCallRecorded ==
  [][(path.active /\ FieldCall' /\ CalledSetter' # NoProperty) =>
       IF Examined'
       THEN SetterTransition(path.state, path'.state, CalledIvar', CalledSetter',
                             FirstArgument')
       ELSE path'.state = path.state]_vars

\* a value that is neither self nor nil was stored in an assign property of an
\* interesting ivar: the property is cleared, and so is another one still
C21_Witness ==
  /\ FieldCall /\ Examined
  /\ CalledSetter # NoProperty /\ CalledSetter.setterKind = "Assign"
  /\ FirstArgument = OtherExpr
  /\ ~InPseudoInit
  /\ \E q \in AssignProps \ {CalledSetter.name} :
       ClearedSet(CalledIvar) = {CalledSetter.name, q}

\* self was stored again in a cleared property: it is removed, the other
\* property of the ivar and the state of the other ivar stay
C21_WitnessSelf ==
  /\ FieldCall /\ Examined /\ InPseudoInit
  /\ CalledSetter # NoProperty /\ CalledSetter.setterKind = "Assign"
  /\ isObjCSelfExpr(FirstArgument)
  /\ CalledSetter.name \in MayStore(CalledIvar) \ ClearedSet(CalledIvar)
  /\ ClearedSet(CalledIvar) # {}
  /\ \E g \in Ivars \ {CalledIvar} : g \in DOMAIN path.state.IvarMap

\* a setter of an owning property, on an ivar with cleared properties
C21_WitnessOwning ==
  /\ FieldCall /\ Examined
  /\ CalledSetter # NoProperty /\ CalledSetter.setterKind = "Retain"
  /\ ClearedSet(CalledIvar) # {}

\* ------------------------------------------------------------ C22
\* the last callback is the post-call event of release or autorelease sent to
\* the object of an interesting ivar
ReleaseCall ==
  /\ FieldCall
  /\ lastEvent.message.expr.selector \in {s_release, s_autorelease}

\* the callback verified ivar f against the cleared set `cleared` and filed one
\* report for each recorded property of f outside it, and no other
VerifiedAgainst(f, cleared, calls, reports) ==
  /\ calls = <<VerifyCall(MayStore(f), cleared, f)>>
  /\ \A i \in DOMAIN reports : reports[i].ivar = f
  /\ \A p \in AssignProps :
       CountFor(reports, f, p) = IF p \in MayStore(f) \ cleared THEN 1 ELSE 0
  /\ Len(reports) = Cardinality(MayStore(f) \ cleared)

\* C22 as stated: every release or autorelease sent to the object of an
\* interesting ivar verifies that ivar against its current cleared set, with one
\* report per recorded property not cleared, and changes the state of no ivar.
C22_Original_ReleaseVerifies ==
  [][(path.active /\ ReleaseCall') =>
       /\ VerifiedAgainst(CalledIvar', ClearedSet(CalledIvar'), verifyCalls', lastReports')
       /\ path'.state = path.state]_vars

\* C22, amended: the same, for a release the engine did not inline and whose
\* receiver is not known to be nil; the post-call event of an inlined release
\* verifies nothing. In both cases the state of no ivar changes.
C22_ExaminedReleaseVerifies ==
  [][(path.active /\ ReleaseCall') =>
       /\ IF Examined'
          THEN VerifiedAgainst(CalledIvar', ClearedSet(CalledIvar'), verifyCalls',
                               lastReports')
          ELSE verifyCalls' = <<>> /\ lastReports' = <<>>
       /\ path'.state = path.state]_vars

\* a release of an ivar with two recorded properties, one of them cleared: one
\* report
C22_Witness ==
  /\ ReleaseCall /\ Examined
  /\ Cardinality(MayStore(CalledIvar)) = 2
  /\ Cardinality(ClearedSet(CalledIvar) \cap MayStore(CalledIvar)) = 1
  /\ Len(lastReports) = 1

\* an autorelease that files a report
C22_WitnessAutorelease ==
  /\ ReleaseCall /\ Examined
  /\ lastEvent.message.expr.selector = s_autorelease
  /\ lastReports # <<>>

\* ------------------------------------------------------------ C23
\* the operand of a comparison with an integer, and the integer
SymbolOperand(cond) ==
  IF cond.kind = "SymIntExpr" THEN cond.lhs
  ELSE IF cond.kind = "IntSymExpr" THEN cond.rhs
  ELSE NoSym
IntOperand(cond) ==
  IF cond.kind = "SymIntExpr" THEN cond.rhs
  ELSE IF cond.kind = "IntSymExpr" THEN cond.lhs
  ELSE 1

\* sym stands for the value read from assign property p of the object of ivar f
ReadsFieldProperty(sym, f, p) ==
  /\ sym.kind = "SymbolConjured" /\ sym.stmt.kind = "ObjCMessageExpr"
  /\ sym.stmt.receiver # NullExpr
  /\ matchIvarLValueExpression(sym.stmt.receiver) = f
  /\ matchObjCMessageWithPropertyGetter(sym.stmt) # NoProperty
  /\ matchObjCMessageWithPropertyGetter(sym.stmt).name = p
  /\ matchObjCMessageWithPropertyGetter(sym.stmt).setterKind = "Assign"

\* sym stands for the value of ivar f read through its property; onSelf: the
\* getter is called on self
ReadsFieldByGetter(sym, f, onSelf) ==
  /\ sym.kind = "SymbolConjured"
  /\ \/ matchIvarLValueExpression(sym.stmt) = f
     \/ /\ sym.stmt.kind = "ObjCMessageExpr"
        /\ matchObjCMessageWithPropertyGetter(sym.stmt) # NoProperty
        /\ matchObjCMessageWithPropertyGetter(sym.stmt).ivar = f
        /\ onSelf => isObjCSelfExpr(sym.stmt.receiver)

\* sym stands for the value of ivar f itself
ReadsField(sym, f) ==
  /\ sym.kind \in {"SymbolRegionValue", "SymbolDerived"}
  /\ sym.region = IvarRegion(f)

\* "f.p != self" or "f.p == self"
ComparesPropertyWithSelf(cond, f, p) ==
  /\ cond.kind = "SymSymExpr" /\ cond.op \in {"BO_EQ", "BO_NE"}
  /\ \/ ReadsFieldProperty(cond.lhs, f, p) /\ cond.rhs = RegionValue(SelfRegion)
     \/ ReadsFieldProperty(cond.rhs, f, p) /\ cond.lhs = RegionValue(SelfRegion)

\* a comparison with nil
ComparesWithNil(cond) ==
  /\ cond.kind \in {"SymIntExpr", "IntSymExpr"} /\ cond.op \in {"BO_EQ", "BO_NE"}
  /\ IntOperand(cond) = 0

\* the branch on which the compared value is not self, or is nil
SafeBranch(cond, assumption) ==
  IF cond.kind = "SymSymExpr" THEN assumption = (cond.op = "BO_NE")
  ELSE assumption = (cond.op = "BO_EQ")

\* the condition has one of the first two shapes, for property p of ivar f
PropertyShape(cond, f, p) ==
  \/ ComparesPropertyWithSelf(cond, f, p)
  \/ ComparesWithNil(cond) /\ ReadsFieldProperty(SymbolOperand(cond), f, p)

\* the condition has one of the last two shapes, for ivar f
FieldShape(cond, f, onSelf) ==
  /\ ComparesWithNil(cond)
  /\ \/ ReadsFieldByGetter(SymbolOperand(cond), f, onSelf)
     \/ ReadsField(SymbolOperand(cond), f)

\* a branch assumption was just evaluated on a path of a class with facts
Assumed ==
  /\ lastEvent.kind = "evalAssume" /\ ~crashed /\ path.active

\* the ivars for which the assumption just made is a recognized shape, taken
\* on the safe branch
AssumedSafeFor(onSelf) ==
  {f \in Ivars :
     /\ Interesting(f) /\ SafeBranch(lastEvent.cond, lastEvent.assumption)
     /\ \/ \E p \in AssignProps : PropertyShape(lastEvent.cond, f, p)
        \/ FieldShape(lastEvent.cond, f, onSelf)}

AssumedProperty ==
  {fp \in Ivars \X AssignProps :
     /\ Interesting(fp[1]) /\ SafeBranch(lastEvent.cond, lastEvent.assumption)
     /\ PropertyShape(lastEvent.cond, fp[1], fp[2])}

\* the ivar of the assumption, when it has one of the last two shapes (the
\* getter of the ivar may be called on any receiver) and is taken on the safe
\* branch
AssumedField ==
  {f \in Ivars :
     /\ Interesting(f) /\ SafeBranch(lastEvent.cond, lastEvent.assumption)
     /\ FieldShape(lastEvent.cond, f, FALSE)}

C23_WitnessField ==
  /\ Assumed /\ ~InPseudoInit
  /\ \E f \in AssumedField :
       /\ ReadsField(SymbolOperand(lastEvent.cond), f)
       /\ Cardinality(MayStore(f)) = 2
       /\ ClearedSet(f) = MayStore(f)

\* the opposite branch of a recognized shape
C23_WitnessOpposite ==
  /\ Assumed /\ ~SafeBranch(lastEvent.cond, lastEvent.assumption)
  /\ ComparesWithNil(lastEvent.cond)
  /\ \E f \in Ivars : \E p \in AssignProps :
       /\ Interesting(f) /\ PropertyShape(lastEvent.cond, f, p)
       /\ p \in MayStore(f) \ ClearedSet(f)

\* ------------------------------------------------------------ C24
\* an implementation scanned so far under the class name defines dealloc
ClassDefinesTeardown(name) ==
  \E i \in scanned : tu[i].name = name /\ HasMethodNamed(tu[i], s_dealloc)

\* the (ivar, property) pairs the facts record
RecordedPairs(facts) ==
  {fp \in Ivars \X PropNames :
     /\ fp[1] \in DOMAIN facts.ivarFactsMap
     /\ fp[2] \in facts.ivarFactsMap[fp[1]].mayStoreSelfInUnsafeProperty}

\* C24: the scan of an implementation files class-level reports only if the
\* class defines no dealloc and the code is compiled with ARC; in that case it
\* files exactly one report for every recorded property of every interesting
\* ivar and no other; when one of the methods is dealloc, in whatever position,
\* it files nothing.
C24_ClassLevelReports ==
  lastEvent.kind = "checkASTDecl" =>
    LET name == ScannedDecl.name
        facts == implFacts[name]
    IN IF arc /\ ~ClassDefinesTeardown(name)
       THEN /\ \A fp \in Ivars \X PropNames :
                 CountFor(lastReports, fp[1], fp[2]) =
                   IF fp \in RecordedPairs(facts) THEN 1 ELSE 0
            /\ Len(lastReports) = Cardinality(RecordedPairs(facts))
       ELSE lastReports = <<>>

\* a scan under ARC of a class without dealloc, with two interesting ivars and
\* three recorded properties
C24_Witness ==
  /\ lastEvent.kind = "checkASTDecl" /\ arc
  /\ ~ClassDefinesTeardown(ScannedDecl.name)
  /\ DOMAIN implFacts[ScannedDecl.name].ivarFactsMap = Ivars
  /\ Len(lastReports) = 3

\* dealloc is the last method visited, after a method that stores self
C24_WitnessTeardownLast ==
  /\ lastEvent.kind = "checkASTDecl" /\ arc
  /\ Len(ScannedDecl.methods) = 2
  /\ ScannedDecl.methods[2].name = s_dealloc
  /\ SelfStores(ScannedDecl.methods[1]) # {}
  /\ lastReports = <<>>

\* without ARC, a class without dealloc and with recorded properties
C24_WitnessNoARC ==
  /\ lastEvent.kind = "checkASTDecl" /\ ~arc
  /\ ~ClassDefinesTeardown(ScannedDecl.name)
  /\ RecordedPairs(implFacts[ScannedDecl.name]) # {}

\* ------------------------------------------------------------ C25
\* the methods of the implementations scanned so far under a class name
ScannedMethods(name) ==
  UNION {{tu[i].methods[k] : k \in DOMAIN tu[i].methods} :
           i \in {j \in scanned : tu[j].name = name}}

\* the prefixes the claim lists
ListedPrefixes ==
  { <<"s","e","t","u","p">>, <<"_","s","e","t","u","p">>,
    <<"l","o","a","d">>, <<"_","l","o","a","d">>,
    <<"v","i","e","w","d","i","d","l","o","a","d">>,
    <<"_","v","i","e","w","d","i","d","l","o","a","d">> }

\* the method is of the init family, or its name starts with one of the
\* prefixes, whatever the case of its letters
MatchesPrefixes(methDecl, prefixes) ==
  \/ methDecl.family = "OMF_init"
  \/ \E prefix \in prefixes : startswith(lower(methDecl.name), prefix)

\* C25 as stated: pseudoInitMethods holds exactly the methods that are
\* initializers or whose name starts, case-insensitively, with setup, load,
\* viewdidload, _setup, _load or _viewdidload; hasDealloc is true iff some method
\* is named dealloc.
C25_Original_ListedPrefixes ==
  \A name \in DOMAIN implFacts :
    /\ implFacts[name].pseudoInitMethods =
         {m.name : m \in {n \in ScannedMethods(name) : MatchesPrefixes(n, ListedPrefixes)}}
    /\ implFacts[name].hasDealloc <=> ClassDefinesTeardown(name)

\* C25, amended: the list of prefixes also holds _init, so a method such as
\* -(void)_initViews, which is not of the init family, is a pseudo-init method
\* too; the rest as stated.
C25_PrefixesWithInit ==
  \A name \in DOMAIN implFacts :
    /\ implFacts[name].pseudoInitMethods =
         {m.name : m \in {n \in ScannedMethods(name) :
                            MatchesPrefixes(n, ListedPrefixes \cup {<<"_","i","n","i","t">>})}}
    /\ implFacts[name].hasDealloc <=> ClassDefinesTeardown(name)

\* an implementation with -(void)_initViews and a method that matches nothing
C25_Witness ==
  /\ lastEvent.kind = "checkASTDecl"
  /\ HasMethodNamed(ScannedDecl, s__initViews)
  /\ Len(ScannedDecl.methods) = 2
  /\ implFacts[ScannedDecl.name].pseudoInitMethods = {s__initViews}

\* viewDidLoad, matched whatever its case, and dealloc
C25_WitnessCase ==
  /\ lastEvent.kind = "checkASTDecl"
  /\ implFacts[ScannedDecl.name].pseudoInitMethods = {s_viewDidLoad}
  /\ implFacts[ScannedDecl.name].hasDealloc

\* ------------------------------------------------------------ C26
\* every fact of `old` is a fact of `new`
FactsKept(old, new) ==
  /\ \A f \in DOMAIN old.ivarFactsMap :
       /\ f \in DOMAIN new.ivarFactsMap
       /\ old.ivarFactsMap[f].mayStoreSelfInUnsafeProperty
            \subseteq new.ivarFactsMap[f].mayStoreSelfInUnsafeProperty
       /\ old.ivarFactsMap[f].mayTargetSelf => new.ivarFactsMap[f].mayTargetSelf
       /\ old.ivarFactsMap[f].mayObserveSelf => new.ivarFactsMap[f].mayObserveSelf
  /\ old.pseudoInitMethods \subseteq new.pseudoInitMethods
  /\ old.hasDealloc => new.hasDealloc

\* C26: _implFacts changes only in checkASTDecl, which creates the entry of the
\* scanned class when it is absent and adds facts to it, and in
\* checkEndOfTranslationUnit, which empties it; a path callback leaves its keys
\* and its values as they are, also when the class it looks up has no entry.
C26_CacheMutationPoints ==
  [][/\ lastEvent'.kind \in PathCallbacks \cup {"BeginPath", "InlineCall"}
          => implFacts' = implFacts
     /\ lastEvent'.kind = "checkEndOfTranslationUnit" => implFacts' = EmptyMap
     /\ lastEvent'.kind = "checkASTDecl"
          => /\ DOMAIN implFacts' = DOMAIN implFacts \cup {tu[lastEvent'.decl].name}
             /\ \A c \in DOMAIN implFacts :
                  IF c = tu[lastEvent'.decl].name
                  THEN FactsKept(implFacts[c], implFacts'[c])
                  ELSE implFacts'[c] = implFacts[c]]_vars

\* a path callback looked up a class without entry, in a cache that holds the
\* facts of another class
C26_Witness ==
  /\ lastEvent.kind \in PathCallbacks /\ MissingFacts
  /\ DOMAIN implFacts # {}
  /\ TopClass \notin DOMAIN implFacts

\* the cache held facts and the translation unit ended
C26_WitnessEnd ==
  /\ lastEvent.kind = "checkEndOfTranslationUnit"
  /\ scanned # {} /\ implFacts = EmptyMap

\* ------------------------------------------------------------ C27
\* C27: a call of a property setter on self, without resolvable body or with an
\* implicit one, with an argument known to be nil, for a property backed by an
\* interesting ivar: the verification reads the cleared set the ivar has before
\* the call, so it files a report for every recorded property not yet cleared,
\* and the cleared set is the full one after the call. Every verification
\* reads the cleared set as it is when its callback begins, so the ones that
\* follow the call see the full set.
C27_VerifyBeforeClearing ==
  [][/\ (path.active /\ SelfSetterCall' /\ ImplementationUnknown'
           /\ lastEvent'.message.arg0KnownNil)
          => /\ VerifiedAgainst(SetIvar', ClearedSet(SetIvar'), verifyCalls', lastReports')
             /\ IvarDynamicStateCopy(path'.state, SetIvar').assignPropertyWasCleared
                  = MayStore(SetIvar')
     /\ (path.active /\ ~crashed' /\ lastEvent'.kind \in PathCallbacks)
          => \A i \in DOMAIN verifyCalls' :
               verifyCalls'[i].cleared = ClearedSet(verifyCalls'[i].ivar)]_vars

\* self.bar = nil, with an unknown setter, reported a property of _bar and
\* left it cleared
C27_Witness ==
  /\ SelfSetterCall /\ ImplementationUnknown
  /\ lastEvent.message.arg0KnownNil
  /\ lastReports # <<>>
  /\ \A i \in DOMAIN lastReports :
       lastReports[i].ivar = SetIvar /\ lastReports[i].prop \in ClearedSet(SetIvar)
  /\ ClearedSet(SetIvar) = MayStore(SetIvar)

\* a release that follows the call verifies the ivar and reports nothing
C27_WitnessAfter ==
  /\ ReleaseCall /\ Examined /\ VerifyRan /\ ~InPseudoInit
  /\ steps = 3
  /\ pathReports # <<>> /\ lastReports = <<>>
  /\ MayStore(CalledIvar) # {}

\* ------------------------------------------------------------ C28
\* the facts without the target and observer channel: the flags are false, and
\* an ivar that has no other fact has no entry
WithoutChannel(facts) ==
  [facts EXCEPT !.ivarFactsMap =
     [f \in {g \in DOMAIN @ : @[g].mayStoreSelfInUnsafeProperty # {}} |->
        [@[f] EXCEPT !.mayTargetSelf = FALSE, !.mayObserveSelf = FALSE]]]

CacheWithoutChannel(cache) == [c \in DOMAIN cache |-> WithoutChannel(cache[c])]

\* the program state of the run without the channel: the same cleared sets for
\* the ivars that still have facts, no state for the others, flags false
StateWithoutChannel(state) ==
  [state EXCEPT !.IvarMap =
     [f \in {g \in DOMAIN @ : MayStore(g) # {}} |->
        [@[f] EXCEPT !.targetWasCleared = FALSE, !.observerWasCleared = FALSE]]]

\* what the two runs must agree on: the traits of the path and the cleared set
\* of every ivar with a recorded property
Relevant(state) ==
  [InitStateWasSet |-> state.InitStateWasSet,
   CurrentObjCInterfaceDecl |-> state.CurrentObjCInterfaceDecl,
   cleared |-> [f \in {g \in Ivars : MayStore(g) # {}} |->
                  IvarDynamicStateCopy(state, f).assignPropertyWasCleared]]

\* the outcome of a path callback on a given cache and program state, in a
\* given language mode
PathOutcome(event, cache, state, autoRefCount) ==
  CASE event.kind = "checkPreStmt" ->
         checkPreStmtOutcome(cache, state, TopClass, CurrentDecl(path), autoRefCount,
                             event.stmt)
    [] event.kind = "checkPostObjCMessage" ->
         checkPostObjCMessageOutcome(cache, state, TopClass, event.message)
    [] event.kind = "evalAssume" ->
         evalAssumeOutcome(cache, state, event.cond, event.assumption)
    [] event.kind = "checkEndFunction" ->
         checkEndFunctionOutcome(cache, state, TopClass, CurrentDecl(path), autoRefCount)

ReportSite(event) == IF event.kind = "checkEndFunction" THEN "ARC-generated code" ELSE <<>>

\* a message of the target and observer channel, sent to the object of an ivar
ChannelMessage(event) ==
  /\ event.kind = "checkPostObjCMessage"
  /\ \E prefix \in {s_addTargetPrefix, s_removeTargetPrefix, s_addObserver, s_removeObserver} :
       startswith(event.message.expr.selector, prefix)

\* C28: the reports filed along a path do not depend on the target and
\* observer channel. Every path callback files the same reports, and leaves the
\* same cleared sets, as it does on the facts and the program state stripped of
\* mayTargetSelf, mayObserveSelf, targetWasCleared and observerWasCleared;
\* an addTarget:, removeTarget:, addObserver: or removeObserver: message files
\* no report and changes no cleared set; and every report names a property
\* recorded for its ivar, so an ivar whose only facts are mayTargetSelf or
\* mayObserveSelf is never reported.
C28_ChannelIndependence ==
  [][(path.active /\ lastEvent'.kind \in PathCallbacks) =>
       LET other == PathOutcome(lastEvent', CacheWithoutChannel(implFacts),
                                StateWithoutChannel(path.state), arc)
       IN /\ other.crash = crashed'
          /\ ~crashed' =>
               /\ RunCalls(other.calls, ReportSite(lastEvent')) = lastReports'
               /\ Relevant(other.state) = Relevant(path'.state)
          /\ ChannelMessage(lastEvent') =>
               /\ lastReports' = <<>>
               /\ ~crashed' => Relevant(path'.state) = Relevant(path.state)
          /\ \A i \in DOMAIN lastReports' :
               Recorded(lastReports'[i].ivar, lastReports'[i].prop)]_vars

\* the target was removed from an ivar that may target self, and a release of
\* that ivar still reports its property
C28_Witness ==
  /\ ReleaseCall /\ Examined
  /\ implFacts[TopClass].ivarFactsMap[CalledIvar].mayTargetSelf
  /\ IvarDynamicStateCopy(path.state, CalledIvar).targetWasCleared
  /\ lastReports # <<>>

\* an ivar whose only fact is mayTargetSelf was verified: no report
C28_WitnessTargetOnly ==
  /\ ReleaseCall /\ Examined /\ VerifyRan
  /\ implFacts[TopClass].ivarFactsMap[CalledIvar].mayTargetSelf
  /\ MayStore(CalledIvar) = {}
  /\ lastReports = <<>>

\* ------------------------------------------------------------ C29
\* the post-call event is one that checkPostObjCMessage does not examine
NotExamined(message) ==
  \/ message.wasInlined
  \/ message.expr.receiverKind # "Instance"
  \/ message.receiverKnownNil

\* C29: a post-call event for a call that the engine inlined, that is not an
\* instance message, or whose receiver is known to be nil does nothing: no
\* verification runs, no report is filed, the lookup of the class facts is not
\* made (so it cannot fail) and the program state of the path is unchanged. In
\* particular a release, a setter storing self and a setter storing nil sent
\* to the nil object of an ivar with facts neither verify nor change the
\* cleared set.
C29_PostCallGuards ==
  [][(path.active /\ lastEvent'.kind = "checkPostObjCMessage"
        /\ NotExamined(lastEvent'.message))
       => /\ ~crashed'
          /\ verifyCalls' = <<>>
          /\ lastReports' = <<>>
          /\ pathReports' = pathReports
          /\ path'.state = path.state]_vars

\* a release sent to the nil object of an ivar that has a recorded property
\* not yet cleared: no verification, no report
C29_Witness ==
  /\ ReleaseCall
  /\ lastEvent.message.receiverKnownNil /\ ~lastEvent.message.wasInlined
  /\ Interesting(CalledIvar)
  /\ MayStore(CalledIvar) \ ClearedSet(CalledIvar) # {}
  /\ verifyCalls = <<>> /\ lastReports = <<>>

\* a setter storing nil, sent to the nil object of an ivar: the property stays
\* out of the cleared set
C29_WitnessSetter ==
  /\ FieldCall /\ CalledSetter # NoProperty
  /\ lastEvent.message.receiverKnownNil
  /\ FirstArgument = NilExpr
  /\ Interesting(CalledIvar)
  /\ CalledSetter.name \notin ClearedSet(CalledIvar)

\* a class message and an inlined call were delivered
C29_WitnessClassMessage ==
  /\ lastEvent.kind = "checkPostObjCMessage"
  /\ lastEvent.message.expr.receiverKind = "Class"
  /\ ~crashed

\* ------------------------------------------------------------ C30
\* the last callback is the end of a path through dealloc, in any language mode
EndOfDealloc ==
  /\ lastEvent.kind = "checkEndFunction" /\ ~crashed /\ ~path.active
  /\ path.decl.isMethod /\ path.decl.name = s_dealloc

\* the last callback is one of the two that report without automatic reference
\* counting: a release or autorelease sent to the object of an interesting
\* ivar, or a setter called on self whose implementation is unknown
ReportsWithoutARC ==
  \/ ReleaseCall /\ Examined
  \/ SelfSetterCall /\ Examined /\ ImplementationUnknown

\* C30: without automatic reference counting the class-wide scan, a direct
\* write to an ivar and the end of dealloc file no report and run no
\* verification; a report is filed only by a release or autorelease sent to the
\* object of an interesting ivar or by a setter called on self with an unknown
\* implementation; and every path callback leaves the program state it would
\* leave under automatic reference counting (initial reset, setter calls,
\* branch assumptions).
C30_WithoutARC ==
  [][/\ (~arc /\ lastEvent'.kind = "checkASTDecl")
          => (verifyCalls' = <<>> /\ lastReports' = <<>>)
     /\ (~arc /\ path.active /\ lastEvent'.kind \in {"checkPreStmt", "checkEndFunction"})
          => (verifyCalls' = <<>> /\ lastReports' = <<>> /\ pathReports' = pathReports)
     /\ (~arc /\ lastReports' # <<>>) => ReportsWithoutARC'
     /\ (path.active /\ ~crashed' /\ lastEvent'.kind \in PathCallbacks)
          => LET other == PathOutcome(lastEvent', implFacts, path.state, ~arc)
             IN ~other.crash => other.state = path'.state]_vars

\* without ARC, a release of an ivar with a property not cleared reports it
C30_Witness ==
  /\ ~arc /\ ReleaseCall /\ Examined
  /\ lastReports # <<>>

\* without ARC, a path through dealloc ends with a recorded property not
\* cleared, and nothing is reported
C30_WitnessDealloc ==
  /\ ~arc /\ EndOfDealloc /\ TopClass \in DOMAIN implFacts
  /\ \E f \in Ivars : MayStore(f) \ ClearedSet(f) # {}
  /\ lastReports = <<>>

\* without ARC, a scan of a class without dealloc that has recorded properties
C30_WitnessScan ==
  /\ ~arc /\ lastEvent.kind = "checkASTDecl"
  /\ ~ClassDefinesTeardown(ScannedDecl.name)
  /\ RecordedPairs(implFacts[ScannedDecl.name]) # {}
  /\ lastReports = <<>>

\* without ARC, the first statement of a pseudo-init method reset the state
C30_WitnessReset ==
  /\ ~arc /\ lastEvent.kind = "checkPreStmt" /\ ~crashed /\ InPseudoInit
  /\ \E f \in Ivars : MayStore(f) # {} /\ ClearedSet(f) = MayStore(f)

\* without ARC, a setter on self with an unknown implementation reports
C30_WitnessSelfSetter ==
  /\ ~arc /\ SelfSetterCall /\ ImplementationUnknown
  /\ lastReports # <<>>

\* ------------------------------------------------------------ C3
\* scenario A: no dealloc, the only store of self is bar.delegate = self, inside init
ScenarioA(implDecl) ==
  /\ ~HasMethodNamed(implDecl, s_dealloc)
  /\ AllSelfStores(implDecl) = {<<"_bar", s_delegate>>}
  /\ \A k \in DOMAIN implDecl.methods :
       SelfStores(implDecl.methods[k]) # {} => implDecl.methods[k].family = "OMF_init"

\* C3: scenario A (no teardown method, automatic release, bar.delegate = self only
\* inside init): the class-wide scan files exactly one report, naming bar.delegate.
C3_ScenarioA_OneClassLevelReport ==
  (FirstScanUnderARC /\ ScenarioA(ScannedDecl))
    => lastReports = <<Report("_bar", s_delegate, "ARC-generated dealloc")>>

C3_Witness ==
  /\ FirstScanUnderARC /\ ScenarioA(ScannedDecl)
  /\ Len(lastReports) = 1 /\ lastReports[1].prop = s_delegate

\* ------------------------------------------------------------ C4
\* scenario B: no dealloc, self is stored into non-owning properties of fields, but
\* only inside pseudo-init methods
ScenarioB(implDecl) ==
  /\ ~HasMethodNamed(implDecl, s_dealloc)
  /\ AllSelfStores(implDecl) # {}
  /\ \A k \in DOMAIN implDecl.methods :
       SelfStores(implDecl.methods[k]) # {} => IsPseudoInit(implDecl.methods[k])

\* C4 as stated: stores of self that occur only inside pseudo-init methods add no
\* entry to fieldFacts, and scenario B gets zero diagnostics.
C4_Original_PseudoInitExempt ==
  (FirstScanUnderARC /\ ScenarioB(ScannedDecl))
    => /\ DOMAIN implFacts[ScannedDecl.name].ivarFactsMap = {}
       /\ lastReports = <<>>

\* C4 amended: a pseudo-init method is recorded in pseudoInitMethods and its body is
\* still visited: every store of self into a non-owning property p of a field f made
\* inside it is recorded in fieldFacts[f], and in scenario B the scan files exactly
\* one report for each such (f, p) and no other.
C4_PseudoInitBodyStillVisited ==
  lastEvent.kind = "checkASTDecl" =>
    LET facts == implFacts[ScannedDecl.name]
    IN /\ \A k \in DOMAIN ScannedDecl.methods :
            LET m == ScannedDecl.methods[k]
            IN IsPseudoInit(m) =>
                 /\ m.name \in facts.pseudoInitMethods
                 /\ \A fp \in SelfStores(m) :
                      /\ fp[1] \in DOMAIN facts.ivarFactsMap
                      /\ fp[2] \in facts.ivarFactsMap[fp[1]].mayStoreSelfInUnsafeProperty
       /\ (FirstScanUnderARC /\ ScenarioB(ScannedDecl)) =>
            /\ \A fp \in AllSelfStores(ScannedDecl) : CountFor(lastReports, fp[1], fp[2]) = 1
            /\ Len(lastReports) = Cardinality(AllSelfStores(ScannedDecl))

C4_Witness ==
  /\ FirstScanUnderARC /\ ScenarioB(ScannedDecl)
  /\ \E k \in DOMAIN ScannedDecl.methods :
       /\ ScannedDecl.methods[k].name = s_setupBar
       /\ SelfStores(ScannedDecl.methods[k]) = {<<"_bar", s_delegate>>}
  /\ CountFor(lastReports, "_bar", s_delegate) = 1

\* ------------------------------------------------------------ C8
\* C8: a second run of the fact-finder over an implementation already scanned leaves
\* the ClassFacts value (fieldFacts, pseudoInitMethods, hasTeardownMethod,
\* sharedObserverFacts) as it was.
C8_FactFinderIdempotent ==
  [][\A i \in DOMAIN tu : (i \in scanned /\ checkASTDecl(i)) => implFacts' = implFacts]_vars

C8_Witness ==
  /\ lastEvent.kind = "checkASTDecl" /\ ~lastEvent.first
  /\ Len(tu) = 1
  /\ DOMAIN implFacts["Foo"].ivarFactsMap = Ivars
  /\ implFacts["Foo"].pseudoInitMethods # {}

====
